---- MODULE Spec2Model ----
(***************************************************************************)
(* MacInventory: path safety (utils/path_safety.py), secret filtering and  *)
(* exclusion policy (backup/security.py), the tier-2/3 config filter       *)
(* (discovery/config_filter.py), the configuration backup                  *)
(* (backup/config_backup.py) and the discovery merge (discovery/merge.py). *)
(*                                                                         *)
(* A path is the tuple pathlib calls Path.parts: an absolute path starts   *)
(* with the part "/".  A file name is one part; its lower-case form and    *)
(* its suffix are read from tables over the names the model uses.          *)
(***************************************************************************)
EXTENDS Integers, Sequences, FiniteSets, TLC

VARIABLES
    fs,             \* the filesystem: absolute path -> node
    docs,           \* the state of the pattern documents under data/
    call,           \* the last public call: its arguments and what it returned
    results,        \* ConfigBackup.results
    p_results,      \* DiscoveryPipeline._results
    p_undiscovered  \* DiscoveryPipeline._undiscovered

vars == <<fs, docs, call, results, p_results, p_undiscovered>>

(***************************************************************************)
(* Bounds of the model.                                                    *)
(***************************************************************************)
MaxLinkDepth == 2
MaxPieces == 2
MaxRules == 2
MaxApps == 2
MaxLlmCalls == 1

(***************************************************************************)
(* Names and strings.                                                      *)
(***************************************************************************)
\* str.lower() on the names of the model
LowerName(n) ==
    CASE n = "Cache" -> "cache"
      [] n = "CachedData" -> "cacheddata"
      [] n = "Logs" -> "logs"
      [] n = "App" -> "app"
      [] n = ".Docker" -> ".docker"
      [] n = "Config.JSON" -> "config.json"
      [] n = "Docker" -> "docker"
      [] n = ".JSON" -> ".json"
      [] n = "JSON" -> "json"
      [] n = "Tool" -> "tool"
      [] n = ".Tool" -> ".tool"
      [] n = "Empty" -> "empty"
      [] n = ".Empty" -> ".empty"
      [] n = "Whale" -> "whale"
      [] n = ".Whale" -> ".whale"
      [] n = "Library" -> "library"
      [] n = "Application Support" -> "application support"
      [] n = "Preferences" -> "preferences"
      [] n = "Containers" -> "containers"
      [] n = "Group Containers" -> "group containers"
      [] n = "Data" -> "data"
      [] OTHER -> n

\* Path.suffix of a final part: the text from the last dot, "" when the name
\* has no dot or only a leading one
Suffix(n) ==
    CASE n \in {"s.json", "conf.json", "config.json", "x.json", "a.json"} -> ".json"
      [] n = "Config.JSON" -> ".JSON"
      [] n = "big.log" -> ".log"
      [] n = "data.sqlite" -> ".sqlite"
      [] n = "prefs.plist" -> ".plist"
      [] n = "id.pem" -> ".pem"
      [] n = "com.docker.docker.plist" -> ".plist"
      [] n \in {"docker.plist", "docker.docker.plist"} -> ".plist"
      [] n \in {"com.docker.docker", "docker.docker", "group.com.docker.docker",
                "group.docker.docker"} -> ".docker"
      [] n = "group.docker" -> ".docker"
      [] OTHER -> ""

Front(s) == SubSeq(s, 1, Len(s) - 1)
Last(s) == s[Len(s)]
IsPrefix(p, q) == Len(p) <= Len(q) /\ SubSeq(q, 1, Len(p)) = p
LowerPath(p) == [i \in 1..Len(p) |-> LowerName(p[i])]

\* Path.name, Path.parent, Path.is_absolute, the / operator
Name(p) == IF Len(p) <= 1 THEN "" ELSE Last(p)
Parent(p) == IF Len(p) <= 1 THEN p ELSE Front(p)
IsAbsolute(p) == Len(p) > 0 /\ p[1] = "/"
Join(base, rel) == IF IsAbsolute(rel) THEN rel ELSE base \o rel

(***************************************************************************)
(* The filesystem.                                                         *)
(***************************************************************************)
MiB == 1048576

\* the permission bits of a node: what the umask gives a new file or
\* directory, and what normalize_permissions sets
UmaskFileMode == "0644"
UmaskDirMode == "0755"
FILE_MODE == "0600"
DIR_MODE == "0700"

Dir == [kind |-> "dir", size |-> 0, target |-> <<>>, content |-> "none", mode |-> UmaskDirMode]
File(sz) == [kind |-> "file", size |-> sz, target |-> <<>>, content |-> "raw", mode |-> UmaskFileMode]
BinaryPlist == [kind |-> "file", size |-> 100, target |-> <<>>, content |-> "bplist", mode |-> UmaskFileMode]
Link(t) == [kind |-> "link", size |-> 0, target |-> t, content |-> "none", mode |-> "0777"]

Exists(f, p) == p \in DOMAIN f
IsLink(f, p) == Exists(f, p) /\ f[p].kind = "link"

\* Path.resolve(): parts are taken left to right, ".." drops the last part,
\* a symbolic link is replaced by its target
RECURSIVE ResolveParts(_, _, _, _)
ResolveParts(f, cur, rest, fuel) ==
    IF rest = <<>> THEN cur
    ELSE LET s == Head(rest) IN
         IF s = ".."
         THEN ResolveParts(f, Parent(cur), Tail(rest), fuel)
         ELSE LET nxt == Append(cur, s) IN
              IF IsLink(f, nxt) /\ fuel > 0
              THEN ResolveParts(f, <<"/">>, Tail(f[nxt].target) \o Tail(rest), fuel - 1)
              ELSE ResolveParts(f, nxt, Tail(rest), fuel)

Resolve(f, p) == ResolveParts(f, <<"/">>, Tail(p), MaxLinkDepth)

\* Path.exists / is_file / is_dir follow symbolic links
PathExists(f, p) == Exists(f, Resolve(f, p))
IsFile(f, p) == PathExists(f, p) /\ f[Resolve(f, p)].kind = "file"
IsDir(f, p) == PathExists(f, p) /\ f[Resolve(f, p)].kind = "dir"
SizeOf(f, p) == f[Resolve(f, p)].size

(***************************************************************************)
(* utils/path_safety.py                                                    *)
(***************************************************************************)
validate_relative_path_NoDotDot(rel_path) == ~IsAbsolute(rel_path)

validate_relative_path(rel_path) ==
    /\ ~IsAbsolute(rel_path)
    /\ ~(\E i \in 1..Len(rel_path) : rel_path[i] = "..")

Raised(msg) == [raised |-> TRUE, error |-> msg, dest |-> <<>>]
Returned(d) == [raised |-> FALSE, error |-> "", dest |-> d]

safe_join_NoRecheck(f, base, relative) ==
    IF ~validate_relative_path(relative)
    THEN Raised("Invalid relative path")
    ELSE Returned(Resolve(f, Join(base, relative)))

safe_join(f, base, relative) ==
    IF ~validate_relative_path(relative)
    THEN Raised("Invalid relative path")
    ELSE LET base_resolved == Resolve(f, base)
             dest == Resolve(f, Join(base, relative))
         IN  IF IsPrefix(base_resolved, dest)
             THEN Returned(dest)
             ELSE Raised("Path traversal detected")

(***************************************************************************)
(* Glob patterns (fnmatch) of the pattern documents.  fnmatch compares     *)
(* case-sensitively on POSIX and "*" also matches "/".  A pattern is one   *)
(* of the shapes the documents use:                                        *)
(*   name   "id_rsa"          the whole name                               *)
(*   ext    "*.pem"           the name ends with the extension             *)
(*   star   "Cache*"          the name starts with the text                *)
(*   sub    ".aws/cred"       two consecutive parts (a pattern with "/")   *)
(*   under  "**/Logs/**"      the path has the part, followed by "/"       *)
(***************************************************************************)
Glob(t, v, text) == [t |-> t, v |-> v, text |-> text]

\* str.startswith on the names of the model
StartsWith(n, prefix) ==
    \/ n = prefix
    \/ prefix = "Cache" /\ n = "CachedData"

\* fnmatch.fnmatch(name, pattern) for a file or directory name
FnMatchName(n, g) ==
    CASE g.t = "name" -> n = g.v[1]
      [] g.t = "ext" -> Suffix(n) = g.v[1]
      [] g.t = "star" -> StartsWith(n, g.v[1])
      [] OTHER -> FALSE

\* "/a/b/" occurs in str(path): the parts occur in a row before the last part
HasPartsBefore(p, parts, last) ==
    \E i \in 2..last :
        /\ i + Len(parts) - 1 <= last
        /\ SubSeq(p, i, i + Len(parts) - 1) = parts

\* fnmatch.fnmatch(str(path), pattern); slash: str(path) + "/" is matched
FnMatchPath(p, g, slash) ==
    CASE g.t = "under" -> HasPartsBefore(p, g.v, IF slash THEN Len(p) ELSE Len(p) - 1)
      [] OTHER -> FALSE

\* fnmatch.fnmatch(path_str, f"*{pattern}*"): the pattern's text occurs
FnMatchSubstring(p, g) == g.t = "sub" /\ HasPartsBefore(p, g.v, Len(p))

\* the least index of a sequence whose element satisfies Test, 0 when none
FirstIndex(seq, Test(_)) ==
    IF \E i \in 1..Len(seq) : Test(seq[i])
    THEN CHOOSE i \in 1..Len(seq) :
             Test(seq[i]) /\ \A j \in 1..(i - 1) : ~Test(seq[j])
    ELSE 0

(***************************************************************************)
(* backup/security.py: the exclusion policy                                *)
(***************************************************************************)
DEFAULT_MAX_FILE_SIZE_MB == 10

\* the security-patterns document as load_security_patterns returns it
SecurityPatterns ==
    [exclude_files |-> <<Glob("name", <<"id_rsa">>, "id_rsa"),
                         Glob("sub", <<".aws", "credentials">>, ".aws/credentials")>>,
     exclude_by_extension |-> <<Glob("ext", <<".pem">>, "*.pem")>>,
     exclude_by_pattern |-> <<Glob("under", <<"node_modules">>, "**/node_modules/**")>>,
     exclude_directories |-> <<Glob("name", <<"node_modules">>, "node_modules/"),
                               Glob("name", <<".git">>, ".git/")>>,
     max_file_size_mb |-> DEFAULT_MAX_FILE_SIZE_MB]

Reason(rule, pat) == [rule |-> rule, pat |-> pat]
NoReason == Reason("none", "")

Verdict(excluded, reason, evaluated) ==
    [excluded |-> excluded, reason |-> reason, evaluated |-> evaluated]

cache_patterns ==
    <<"cache", "caches", ".cache", "logs", "log",
      "crashpad", "crashreporter", "temp", "tmp">>

excluded_extensions ==
    {".sqlite", ".sqlite3", ".db", ".dylib", ".so", ".dll", ".exe",
     ".sqlite-wal", ".sqlite-shm"}

\* pattern in path_str, for the pattern "/" + name + "/"
InPathStr(p, name) == \E i \in 2..(Len(p) - 1) : LowerName(p[i]) = name

TooLarge(f, p, max_mb) == SizeOf(f, p) > max_mb * MiB

is_pure_config_SizeFirst(f, path, max_size_mb, statOK) ==
    LET hit == FirstIndex(cache_patterns, LAMBDA c : InPathStr(path, c)) IN
    IF IsFile(f, path) /\ ~statOK
    THEN Verdict(TRUE, Reason("cannot_check_size", ""), <<"size">>)
    ELSE IF IsFile(f, path) /\ TooLarge(f, path, max_size_mb)
    THEN Verdict(TRUE, Reason("size", ""), <<"size">>)
    ELSE IF hit # 0
    THEN Verdict(TRUE, Reason("substring", cache_patterns[hit]), <<"size", "substring">>)
    ELSE IF LowerName(Suffix(Name(path))) \in excluded_extensions
    THEN Verdict(TRUE, Reason("extension", Suffix(Name(path))),
                 <<"size", "substring", "extension">>)
    ELSE Verdict(FALSE, NoReason, <<"size", "substring", "extension">>)

\* is_pure_config: (is_valid, reason) is (~excluded, reason)
is_pure_config(f, path, max_size_mb, statOK) ==
    LET hit == FirstIndex(cache_patterns, LAMBDA c : InPathStr(path, c))
        sized == IF IsFile(f, path) THEN <<"size">> ELSE <<>>
    IN
    IF hit # 0
    THEN Verdict(TRUE, Reason("substring", cache_patterns[hit]), <<"substring">>)
    ELSE IF IsFile(f, path) /\ ~statOK
    THEN Verdict(TRUE, Reason("cannot_check_size", ""), <<"substring", "size">>)
    ELSE IF IsFile(f, path) /\ TooLarge(f, path, max_size_mb)
    THEN Verdict(TRUE, Reason("size", ""), <<"substring", "size">>)
    ELSE IF LowerName(Suffix(Name(path))) \in excluded_extensions
    THEN Verdict(TRUE, Reason("extension", Suffix(Name(path))),
                 <<"substring">> \o sized \o <<"extension">>)
    ELSE Verdict(FALSE, NoReason, <<"substring">> \o sized \o <<"extension">>)

should_exclude_file(f, pats, file_path, statOK) ==
    LET filename == Name(file_path)
        i1 == FirstIndex(pats.exclude_files,
                  LAMBDA g : FnMatchName(filename, g) \/ FnMatchSubstring(file_path, g))
        i2 == FirstIndex(pats.exclude_by_extension, LAMBDA g : FnMatchName(filename, g))
        i3 == FirstIndex(pats.exclude_by_pattern, LAMBDA g : FnMatchPath(file_path, g, FALSE))
    IN
    IF i1 # 0
    THEN Verdict(TRUE, Reason("exclude_files", pats.exclude_files[i1].text),
                 <<"exclude_files">>)
    ELSE IF i2 # 0
    THEN Verdict(TRUE, Reason("exclude_by_extension", pats.exclude_by_extension[i2].text),
                 <<"exclude_files", "exclude_by_extension">>)
    ELSE IF i3 # 0
    THEN Verdict(TRUE, Reason("exclude_by_pattern", pats.exclude_by_pattern[i3].text),
                 <<"exclude_files", "exclude_by_extension", "exclude_by_pattern">>)
    ELSE IF IsFile(f, file_path) /\ statOK /\ TooLarge(f, file_path, pats.max_file_size_mb)
    THEN Verdict(TRUE, Reason("size", ""),
                 <<"exclude_files", "exclude_by_extension", "exclude_by_pattern", "size">>)
    ELSE Verdict(FALSE, NoReason,
                 <<"exclude_files", "exclude_by_extension", "exclude_by_pattern", "size">>)

should_exclude_directory(pats, dir_path) ==
    LET dirname == Name(dir_path)
        i1 == FirstIndex(pats.exclude_directories, LAMBDA g : FnMatchName(dirname, g))
        i2 == FirstIndex(pats.exclude_by_pattern,
                  LAMBDA g : FnMatchPath(dir_path, g, FALSE) \/ FnMatchPath(dir_path, g, TRUE))
    IN
    IF i1 # 0
    THEN Verdict(TRUE, Reason("exclude_directories", pats.exclude_directories[i1].text),
                 <<"exclude_directories">>)
    ELSE IF i2 # 0
    THEN Verdict(TRUE, Reason("exclude_by_pattern", pats.exclude_by_pattern[i2].text),
                 <<"exclude_directories", "exclude_by_pattern">>)
    ELSE Verdict(FALSE, NoReason, <<"exclude_directories", "exclude_by_pattern">>)

\* the walk from the path (a directory) or its parent up to the root
RECURSIVE ExcludedAncestor(_, _)
ExcludedAncestor(pats, current) ==
    IF current = Parent(current) THEN Verdict(FALSE, NoReason, <<"parent">>)
    ELSE LET v == should_exclude_directory(pats, current) IN
         IF v.excluded
         THEN Verdict(TRUE, Reason("parent", v.reason.pat), <<"parent">>)
         ELSE ExcludedAncestor(pats, Parent(current))

is_path_in_excluded_directory(f, pats, file_path) ==
    ExcludedAncestor(pats, IF IsDir(f, file_path) THEN file_path ELSE Parent(file_path))

\* SecurityManager.can_backup: (can_backup, reason) is (~excluded, reason)
can_backup(f, pats, path, statOK) ==
    LET pure == is_pure_config(f, path, pats.max_file_size_mb, statOK)
        fileV == should_exclude_file(f, pats, path, statOK)
        dirV == should_exclude_directory(pats, path)
        parV == is_path_in_excluded_directory(f, pats, path)
        e1 == pure.evaluated
        e2 == IF IsFile(f, path) THEN e1 \o fileV.evaluated ELSE e1
        e3 == IF IsDir(f, path) THEN e2 \o dirV.evaluated ELSE e2
    IN
    IF pure.excluded THEN pure
    ELSE IF IsFile(f, path) /\ fileV.excluded THEN Verdict(TRUE, fileV.reason, e2)
    ELSE IF IsDir(f, path) /\ dirV.excluded THEN Verdict(TRUE, dirV.reason, e3)
    ELSE IF parV.excluded THEN Verdict(TRUE, parV.reason, e3 \o parV.evaluated)
    ELSE Verdict(FALSE, NoReason, e3 \o parV.evaluated)

(***************************************************************************)
(* discovery/config_filter.py                                              *)
(***************************************************************************)
\* str.startswith('.') and the lower-case, dot-led form of an extension
StartsWithDot(n) ==
    n \in {".zshrc", ".hidden", ".docker", ".Docker", ".config", ".git", ".aws",
           ".json", ".JSON", ".yaml", ".plist", ".sqlite", ".db", ".so", ".dylib",
           ".pem", ".log", ".."}
NormalizeExt(e) ==
    LET ext == LowerName(e) IN
    IF StartsWithDot(ext) THEN ext
    ELSE CASE ext = "json" -> ".json"
           [] ext = "toml" -> ".toml"
           [] OTHER -> ext

\* the patterns ConfigFilter._load_patterns leaves in self._patterns; a key the
\* document does not hold reads as the default of its .get()
PatternsDoc(se, hx, sf, sd, hp, sz) ==
    [safe_extensions |-> se, hard_exclude_extensions |-> hx, safe_filenames |-> sf,
     safe_directories |-> sd, hard_exclude_patterns |-> hp, max_file_size_bytes |-> sz]

_load_patterns(doc) ==
    CASE doc = "loaded" ->
            PatternsDoc({".json", "JSON", ".yaml", "toml", ".plist"},
                        {".dylib", ".so", ".sqlite", ".db", ".log"},
                        {"config", "Brewfile"}, {".config"},
                        <<Glob("under", <<"Cache">>, "**/Cache/**"),
                          Glob("under", <<"Logs">>, "**/Logs/**"),
                          Glob("under", <<"node_modules">>, "**/node_modules/**")>>,
                        MiB)
      [] doc = "missing" ->
            PatternsDoc({".json", ".yaml", ".yml", ".toml", ".plist"},
                        {".dylib", ".so", ".sqlite", ".db"}, {}, {},
                        <<Glob("under", <<"Cache">>, "**/Cache/**"),
                          Glob("under", <<"Logs">>, "**/Logs/**")>>,
                        MiB)
      [] OTHER -> PatternsDoc({}, {}, {}, {}, <<>>, MiB)

\* the lookup sets of a constructed ConfigFilter
_build_lookup_sets(pt) ==
    [safe_extensions |-> {NormalizeExt(e) : e \in pt.safe_extensions},
     hard_exclude_extensions |-> {NormalizeExt(e) : e \in pt.hard_exclude_extensions},
     safe_filenames |-> {LowerName(n) : n \in pt.safe_filenames},
     safe_directories |-> {LowerName(n) : n \in pt.safe_directories},
     hard_exclude_patterns |-> pt.hard_exclude_patterns,
     max_file_size |-> pt.max_file_size_bytes]

ConfigFilter(doc) == _build_lookup_sets(_load_patterns(doc))

excluded_dirs ==
    {"cache", "caches", "cacheddata", "log", "logs", "build", "buildx",
     "node_modules", ".git", "bin", "obj", "__pycache__", "blob_storage",
     "indexeddb", "webstorage", "workspacestorage", "globalstorage",
     "local storage", "session storage", "gpucache", "shadercache",
     "crashpad", "crashreporter", "models", "mutagen", "contexts", "cloud",
     "desktop-build", "refs", "activity"}

dotfile_patterns ==
    {"rc", "config", "conf", "profile", "login", "logout",
     "history", "aliases", "exports", "functions"}

\* pattern in filename, on the lower-cased names of the model
ContainsText(n, t) ==
    \/ n = t
    \/ n = ".zshrc" /\ t = "rc"
    \/ n \in {"config.json", ".config"} /\ t \in {"config", "conf"}
    \/ n = "conf.json" /\ t = "conf"

\* the matched pattern's index, 0 for None
_matches_exclude_pattern(cf, path) ==
    FirstIndex(cf.hard_exclude_patterns, LAMBDA g : FnMatchPath(path, g, FALSE))

\* the index of the first part that is an excluded directory name, 0 for None
_is_in_excluded_directory(path) ==
    FirstIndex(path, LAMBDA part : LowerName(part) \in excluded_dirs)

Accept(why) == [valid |-> TRUE, reason |-> why]
Reject(why) == [valid |-> FALSE, reason |-> why]

is_config_file_AcceptFirst(f, cf, path, statOK) ==
    LET filename == LowerName(Name(path))
        suffix == LowerName(Suffix(Name(path)))
    IN
    IF ~PathExists(f, path) THEN Reject("File does not exist")
    ELSE IF ~IsFile(f, path) THEN Reject("Not a file")
    ELSE IF filename \in cf.safe_filenames THEN Accept("Safe filename")
    ELSE IF suffix \in cf.safe_extensions THEN Accept("Safe extension")
    ELSE IF _matches_exclude_pattern(cf, path) # 0 THEN Reject("Matches exclude pattern")
    ELSE IF _is_in_excluded_directory(path) # 0 THEN Reject("Inside excluded directory")
    ELSE IF suffix \in cf.hard_exclude_extensions THEN Reject("Excluded extension")
    ELSE IF statOK /\ SizeOf(f, path) > cf.max_file_size THEN Reject("File too large")
    ELSE IF /\ StartsWithDot(filename) /\ filename # ".."
            /\ \E t \in dotfile_patterns : ContainsText(filename, t)
    THEN Accept("Dotfile config pattern")
    ELSE Reject("Unknown file type")

is_config_file(f, cf, path, statOK) ==
    LET filename == LowerName(Name(path))
        suffix == LowerName(Suffix(Name(path)))
    IN
    IF ~PathExists(f, path) THEN Reject("File does not exist")
    ELSE IF ~IsFile(f, path) THEN Reject("Not a file")
    ELSE IF _matches_exclude_pattern(cf, path) # 0 THEN Reject("Matches exclude pattern")
    ELSE IF _is_in_excluded_directory(path) # 0 THEN Reject("Inside excluded directory")
    ELSE IF suffix \in cf.hard_exclude_extensions THEN Reject("Excluded extension")
    ELSE IF statOK /\ SizeOf(f, path) > cf.max_file_size THEN Reject("File too large")
    ELSE IF filename \in cf.safe_filenames THEN Accept("Safe filename")
    ELSE IF suffix \in cf.safe_extensions THEN Accept("Safe extension")
    ELSE IF /\ StartsWithDot(filename) /\ filename # ".."
            /\ \E t \in dotfile_patterns : ContainsText(filename, t)
    THEN Accept("Dotfile config pattern")
    ELSE Reject("Unknown file type")

is_config_directory(f, cf, path) ==
    IF ~PathExists(f, path) THEN Reject("Directory does not exist")
    ELSE IF ~IsDir(f, path) THEN Reject("Not a directory")
    ELSE IF _matches_exclude_pattern(cf, path) # 0 THEN Reject("Matches exclude pattern")
    ELSE IF _is_in_excluded_directory(path) # 0 THEN Reject("Excluded directory type")
    ELSE IF LowerName(Name(path)) \in cf.safe_directories THEN Accept("Safe directory")
    ELSE Accept("Allowed directory (not explicitly safe)")

should_recurse_directory(f, cf, path) == is_config_directory(f, cf, path).valid

(***************************************************************************)
(* backup/config_backup.py                                                 *)
(*                                                                         *)
(* What the environment decides for one call: whether stat() succeeds,     *)
(* whether a write to the destination succeeds, whether the plist          *)
(* conversion succeeds and whether the converted file can be read back     *)
(* and rewritten, and whether os.chmod on the destination succeeds.        *)
(***************************************************************************)
Env(st, wr, cv, rw, ch) ==
    [statOK |-> st, writeOK |-> wr, convertOK |-> cv, rewriteOK |-> rw, chmodOK |-> ch]
AllOK == Env(TRUE, TRUE, TRUE, TRUE, TRUE)
Envs == {AllOK, Env(FALSE, TRUE, TRUE, TRUE, TRUE), Env(TRUE, FALSE, TRUE, TRUE, TRUE),
         Env(TRUE, TRUE, FALSE, TRUE, TRUE), Env(TRUE, TRUE, TRUE, FALSE, TRUE),
         Env(TRUE, TRUE, TRUE, TRUE, FALSE)}

\* ConfigBackup.__init__: output_dir and the defaults of its switches
output_dir == <<"/", "out">>
include_secrets == FALSE
normalize == TRUE

\* the prefixes of a path, the root left out
Ancestors(p) == {SubSeq(p, 1, n) : n \in 2..Len(p)}

\* Path.mkdir(parents=True, exist_ok=True): fails on a part that is a file
MkdirFails(f, d) == \E a \in Ancestors(d) : Exists(f, a) /\ f[a].kind # "dir"
Mkdir(f, d) == [a \in {x \in Ancestors(d) : ~Exists(f, x)} |-> Dir] @@ f

\* a write of the file dest: content is "raw", "redacted", "bplist", "xml" or
\* "xml_redacted"
WriteFails(f, dest) == Exists(f, dest) /\ f[dest].kind # "file"
WriteFile(f, dest, sz, content) ==
    (dest :> [kind |-> "file", size |-> sz, target |-> <<>>, content |-> content,
              mode |-> UmaskFileMode]) @@ f

\* os.chmod of every path of the set: a link is followed to what it names
Chmod(f, paths) ==
    LET nodes == {Resolve(f, p) : p \in {q \in paths : PathExists(f, q)}} IN
    [p \in DOMAIN f |->
        IF p \in nodes
        THEN [f[p] EXCEPT !.mode = IF f[p].kind = "file" THEN FILE_MODE ELSE DIR_MODE]
        ELSE f[p]]

\* normalize_permissions(target): nothing for a missing target; the file, or
\* the directory and everything os.walk finds under it, is given its mode;
\* an OSError of chmod is swallowed ("best effort") and nothing is returned
normalize_permissions(f, target, chmodOK) ==
    IF ~PathExists(f, target) THEN f
    ELSE IF ~chmodOK THEN f
    ELSE IF IsFile(f, target) THEN Chmod(f, {target})
    ELSE IF IsDir(f, target)
    THEN Chmod(f, {p \in DOMAIN f : IsPrefix(Resolve(f, target), p)})
    ELSE f

\* "if self.normalize: normalize_permissions(dest)" after a write that
\* succeeded
Normalized(f, dest, failed, env) ==
    IF normalize /\ ~failed THEN normalize_permissions(f, dest, env.chmodOK) ELSE f

\* the outcome of processing one file: whether it failed, whether the failure
\* was an exception (and not an error status returned), the branch taken and
\* the filesystem left
Outcome(failed, raised, branch, f) ==
    [failed |-> failed, raised |-> raised, branch |-> branch, fs |-> f]

\* utils/plist.py is_binary_plist: the file starts with the magic "bplist"
is_binary_plist(f, p) == IsFile(f, p) /\ f[Resolve(f, p)].content = "bplist"

\* the binary-plist branch: backup_plist_as_xml copies the source to dest and
\* converts it in place, then the converted text is read, filtered and rewritten
PlistBranch(f, src, dest, should_filter, env) ==
    IF MkdirFails(f, Parent(dest)) \/ WriteFails(f, dest) \/ ~env.writeOK
    THEN Outcome(TRUE, TRUE, "plist", f)
    ELSE LET f1 == Mkdir(f, Parent(dest))
             sz == SizeOf(f, src)
         IN  IF ~env.convertOK
             THEN Outcome(TRUE, FALSE, "plist", WriteFile(f1, dest, sz, "bplist"))
             ELSE IF ~should_filter
             THEN Outcome(FALSE, FALSE, "plist", WriteFile(f1, dest, sz, "xml"))
             ELSE IF ~env.rewriteOK
             THEN Outcome(TRUE, TRUE, "plist", WriteFile(f1, dest, sz, "xml"))
             ELSE Outcome(FALSE, FALSE, "plist", WriteFile(f1, dest, sz, "xml_redacted"))

\* SecurityManager.process_file(source, dest, include_secrets=False) when
\* filtering and copy_file_safe(source, dest) when not: both catch the failure
\* of their own mkdir and write and return status 'error'
CopyBranch(f, src, dest, should_filter, env) ==
    LET branch == IF should_filter THEN "filter" ELSE "copy" IN
    IF MkdirFails(f, Parent(dest)) \/ WriteFails(f, dest) \/ ~env.writeOK
    THEN Outcome(TRUE, FALSE, branch, f)
    ELSE Outcome(FALSE, FALSE, branch,
                 WriteFile(Mkdir(f, Parent(dest)), dest, SizeOf(f, src),
                           IF should_filter THEN "redacted" ELSE "raw"))

IsBinaryPlistFile(f, src) ==
    LowerName(Suffix(Name(src))) = ".plist" /\ is_binary_plist(f, src)

ProcessOne(f, src, dest, should_filter, env) ==
    IF IsBinaryPlistFile(f, src)
    THEN PlistBranch(f, src, dest, should_filter, env)
    ELSE CopyBranch(f, src, dest, should_filter, env)

Result(op, source, dest, rel, tier) ==
    [op |-> op, source |-> source, dest |-> dest, relative_dest |-> rel,
     status |-> "success", reason |-> "", filtered |-> FALSE, errors |-> 0,
     discovery_tier |-> tier, tier_filtered |-> FALSE,
     files_processed |-> 0, files_skipped |-> 0, files_tier_filtered |-> 0]

Skipped(r, why, by_tier) ==
    [r EXCEPT !.status = "skipped", !.reason = why, !.tier_filtered = by_tier]

Failed(r) == [r EXCEPT !.status = "error", !.errors = 1]

\* what a call returns, the filesystem it leaves and whether the result was
\* appended to self.results
Done(ret, f, recorded) == [ret |-> ret, fs |-> f, recorded |-> recorded]

ShouldFilter(filter_secrets) ==
    IF filter_secrets = "default" THEN ~include_secrets ELSE filter_secrets = "yes"

UsesConfigFilter_EveryTier(discovery_tier) == TRUE

\* "if discovery_tier in ('conventions', 'llm')"
UsesConfigFilter(discovery_tier) == discovery_tier \in {"conventions", "llm"}

JoinOutput_Unchecked(f, relative_dest) ==
    Returned(Resolve(f, Join(output_dir, relative_dest)))

\* "dest = safe_join(self.output_dir, relative_dest)"
JoinOutput(f, relative_dest) == safe_join(f, output_dir, relative_dest)

backup_file_PolicyFirst(f, doc, source, relative_dest, filter_secrets, discovery_tier, env) ==
    LET j == JoinOutput(f, relative_dest)
        dest == j.dest
        result == Result("backup_file", source, dest, relative_dest, discovery_tier)
        cfv == is_config_file(f, ConfigFilter(doc), source, env.statOK)
        cb == can_backup(f, SecurityPatterns, source, env.statOK)
        should_filter == ShouldFilter(filter_secrets)
    IN
    IF j.raised
    THEN Done(Failed(result), f, FALSE)
    ELSE IF ~PathExists(f, source)
    THEN Done(Skipped(result, "Source file does not exist", FALSE), f, TRUE)
    ELSE IF cb.excluded
    THEN Done(Skipped(result, cb.reason.rule, FALSE), f, TRUE)
    ELSE IF UsesConfigFilter(discovery_tier) /\ ~cfv.valid
    THEN Done(Skipped(result, cfv.reason, TRUE), f, TRUE)
    ELSE IF MkdirFails(f, Parent(dest))
    THEN Done(Failed(result), f, TRUE)
    ELSE LET f1 == Mkdir(f, Parent(dest)) IN
         IF ~IsFile(f, source) THEN Done(result, f1, TRUE)
         ELSE LET o == ProcessOne(f1, source, dest, should_filter, env) IN
              Done([result EXCEPT
                       !.status = IF o.failed THEN "error" ELSE "success",
                       !.reason = IF o.failed /\ ~o.raised /\ o.branch = "plist"
                                  THEN "plist conversion failed" ELSE "",
                       !.errors = IF o.failed /\ (o.raised \/ o.branch # "plist")
                                  THEN 1 ELSE 0,
                       !.filtered = IF o.branch = "plist"
                                    THEN should_filter /\ ~o.failed
                                    ELSE should_filter],
                   Normalized(o.fs, dest, o.failed, env), TRUE)

backup_file(f, doc, source, relative_dest, filter_secrets, discovery_tier, env) ==
    LET j == JoinOutput(f, relative_dest)
        dest == j.dest
        result == Result("backup_file", source, dest, relative_dest, discovery_tier)
        cfv == is_config_file(f, ConfigFilter(doc), source, env.statOK)
        cb == can_backup(f, SecurityPatterns, source, env.statOK)
        should_filter == ShouldFilter(filter_secrets)
    IN
    IF j.raised
    THEN Done(Failed(result), f, FALSE)
    ELSE IF ~PathExists(f, source)
    THEN Done(Skipped(result, "Source file does not exist", FALSE), f, TRUE)
    ELSE IF UsesConfigFilter(discovery_tier) /\ ~cfv.valid
    THEN Done(Skipped(result, cfv.reason, TRUE), f, TRUE)
    ELSE IF cb.excluded
    THEN Done(Skipped(result, cb.reason.rule, FALSE), f, TRUE)
    ELSE IF MkdirFails(f, Parent(dest))
    THEN Done(Failed(result), f, TRUE)
    ELSE LET f1 == Mkdir(f, Parent(dest)) IN
         IF ~IsFile(f, source) THEN Done(result, f1, TRUE)
         ELSE LET o == ProcessOne(f1, source, dest, should_filter, env) IN
              Done([result EXCEPT
                       !.status = IF o.failed THEN "error" ELSE "success",
                       !.reason = IF o.failed /\ ~o.raised /\ o.branch = "plist"
                                  THEN "plist conversion failed" ELSE "",
                       !.errors = IF o.failed /\ (o.raised \/ o.branch # "plist")
                                  THEN 1 ELSE 0,
                       !.filtered = IF o.branch = "plist"
                                    THEN should_filter /\ ~o.failed
                                    ELSE should_filter],
                   Normalized(o.fs, dest, o.failed, env), TRUE)

\* ConfigBackup._matches_exclude_pattern: the name, then the lower-cased name
\* against the lower-cased pattern
LowerGlob(g) == [g EXCEPT !.v = LowerPath(g.v)]
MatchesExcludePattern(n, patterns) ==
    \E i \in 1..Len(patterns) :
        \/ FnMatchName(n, patterns[i])
        \/ FnMatchName(LowerName(n), LowerGlob(patterns[i]))

_should_skip_dir(dir_path) == should_exclude_directory(SecurityPatterns, dir_path).excluded

KidsOf(f, root, kind) == {p \in DOMAIN f : p # root /\ Parent(p) = root /\ f[p].kind = kind}

RECURSIVE WalkDirs_NoGlobPruning(_, _, _, _, _)
WalkDirs_NoGlobPruning(f, useCF, cf, exclude_patterns, root) ==
    LET kept == {d \in KidsOf(f, root, "dir") :
                    /\ ~_should_skip_dir(d)
                    /\ useCF => should_recurse_directory(f, cf, d)}
    IN  {root} \cup UNION {WalkDirs_NoGlobPruning(f, useCF, cf, exclude_patterns, d) : d \in kept}

\* the directories os.walk(source) visits after the three in-place prunings of
\* dirs[:] (os.walk does not descend into symbolic links)
RECURSIVE WalkDirs(_, _, _, _, _)
WalkDirs(f, useCF, cf, exclude_patterns, root) ==
    LET kept == {d \in KidsOf(f, root, "dir") :
                    /\ ~_should_skip_dir(d)
                    /\ ~MatchesExcludePattern(Name(d), exclude_patterns)
                    /\ useCF => should_recurse_directory(f, cf, d)}
    IN  {root} \cup UNION {WalkDirs(f, useCF, cf, exclude_patterns, d) : d \in kept}

\* what the loop body does with one file of a visited directory
FileClass(f, useCF, cf, exclude_patterns, src_file, env) ==
    IF MatchesExcludePattern(Name(src_file), exclude_patterns) THEN "skipped"
    ELSE IF useCF /\ ~is_config_file(f, cf, src_file, env.statOK).valid THEN "tier_filtered"
    ELSE IF can_backup(f, SecurityPatterns, src_file, env.statOK).excluded THEN "skipped"
    ELSE "process"

\* the files processed one after the other: the errors recorded, the files
\* counted and the filesystem left.  A failed direct copy is not recorded:
\* the return value of copy_file_safe is dropped.
RECURSIVE ProcessAll(_, _, _, _, _, _, _)
ProcessAll(f, todo, source, dest, should_filter, env, acc) ==
    IF todo = {} THEN [acc EXCEPT !.fs = f]
    ELSE LET src_file == CHOOSE x \in todo : TRUE
             dst_file == dest \o SubSeq(src_file, Len(source) + 1, Len(src_file))
             o == IF MkdirFails(f, Parent(dst_file))
                  THEN Outcome(TRUE, TRUE, "mkdir", f)
                  ELSE ProcessOne(Mkdir(f, Parent(dst_file)), src_file, dst_file,
                                  should_filter, env)
             rec == o.failed /\ (o.raised \/ o.branch # "copy")
         IN  ProcessAll(o.fs, todo \ {src_file}, source, dest, should_filter, env,
                        [acc EXCEPT !.errors = @ + (IF rec THEN 1 ELSE 0),
                                    !.processed = @ + (IF o.raised THEN 0 ELSE 1)])

backup_directory(f, doc, source, relative_dest, filter_secrets, discovery_tier, exclude_patterns, env) ==
    LET j == JoinOutput(f, relative_dest)
        dest == j.dest
        result == Result("backup_directory", source, dest, relative_dest, discovery_tier)
        useCF == UsesConfigFilter(discovery_tier)
        cf == ConfigFilter(doc)
        cdv == is_config_directory(f, cf, source)
        cb == can_backup(f, SecurityPatterns, source, env.statOK)
        should_filter == ShouldFilter(filter_secrets)
    IN
    IF j.raised
    THEN Done(Failed(result), f, FALSE)
    ELSE IF ~PathExists(f, source)
    THEN Done(Skipped(result, "Source directory does not exist", FALSE), f, TRUE)
    ELSE IF useCF /\ ~cdv.valid
    THEN Done(Skipped(result, cdv.reason, TRUE), f, TRUE)
    ELSE IF cb.excluded
    THEN Done(Skipped(result, cb.reason.rule, FALSE), f, TRUE)
    ELSE LET dirs == WalkDirs(f, useCF, cf, exclude_patterns, source)
             files == UNION {KidsOf(f, d, "file") : d \in dirs}
             class == [x \in files |->
                          FileClass(f, useCF, cf, exclude_patterns, x, env)]
             todo == {x \in files : class[x] = "process"}
             w == ProcessAll(f, todo, source, dest, should_filter, env,
                             [errors |-> 0, processed |-> 0, fs |-> f])
         IN  Done([result EXCEPT
                      !.status = IF w.errors > 0 THEN "partial" ELSE "success",
                      !.errors = w.errors,
                      !.files_processed = w.processed,
                      !.files_skipped = Cardinality({x \in files : class[x] = "skipped"}),
                      !.files_tier_filtered =
                          Cardinality({x \in files : class[x] = "tier_filtered"})],
                  Normalized(w.fs, dest, FALSE, env), TRUE)

backup_path(f, doc, source, relative_dest, filter_secrets, discovery_tier, exclude_patterns, env) ==
    IF IsDir(f, source)
    THEN backup_directory(f, doc, source, relative_dest, filter_secrets,
                          discovery_tier, exclude_patterns, env)
    ELSE backup_file(f, doc, source, relative_dest, filter_secrets, discovery_tier, env)

(***************************************************************************)
(* The filesystems the program is started on.                              *)
(***************************************************************************)
P(parts) == <<"/">> \o parts

\* the home directory of one application with its cache, log and vendor
\* directories; the log file and the settings file come in two sizes
HomeTree(logSize, confSize) ==
    (P(<<>>) :> Dir) @@ (P(<<"h">>) :> Dir) @@ (P(<<"etc">>) :> Dir)
    @@ (P(<<"h", "App">>) :> Dir)
    @@ (P(<<"h", "App", "conf.json">>) :> File(confSize))
    @@ (P(<<"h", "App", "data.sqlite">>) :> File(100))
    @@ (P(<<"h", "App", "prefs.plist">>) :> BinaryPlist)
    @@ (P(<<"h", "App", "id.pem">>) :> File(100))
    @@ (P(<<"h", "App", "Cache">>) :> Dir)
    @@ (P(<<"h", "App", "Cache", "s.json">>) :> File(100))
    @@ (P(<<"h", "App", "CachedData">>) :> Dir)
    @@ (P(<<"h", "App", "CachedData", "s.json">>) :> File(100))
    @@ (P(<<"h", "App", "Logs">>) :> Dir)
    @@ (P(<<"h", "App", "Logs", "big.log">>) :> File(logSize))
    @@ (P(<<"h", "App", "node_modules">>) :> Dir)
    @@ (P(<<"h", "App", "node_modules", "x.json">>) :> File(100))

\* the output root as ConfigBackup.__init__ leaves it, with what earlier runs
\* or the user may have put there: a link out of the root, a link inside it,
\* a file where a directory is wanted
OutTree(escape, inner, clash) ==
    (output_dir :> Dir) @@ (P(<<"out", "sub">>) :> Dir)
    @@ (IF escape THEN (P(<<"out", "lnk">>) :> Link(P(<<"etc">>))) ELSE <<>>)
    @@ (IF inner THEN (P(<<"out", "in">>) :> Link(P(<<"out", "sub">>))) ELSE <<>>)
    @@ (IF clash THEN (P(<<"out", "cfg">>) :> File(100)) ELSE <<>>)
    @@ (P(<<"o2">>) :> Link(output_dir))

Sizes == {100, 15 * MiB}

Worlds ==
    {HomeTree(ls, cs) @@ OutTree(e, i, c) :
        ls \in Sizes, cs \in Sizes, e \in BOOLEAN, i \in BOOLEAN, c \in BOOLEAN}

NoCall == [op |-> "none"]

TypeOK ==
    /\ docs.config \in {"loaded", "missing", "malformed"}
    /\ call.op \in {"none", "safe_join", "can_backup", "backup_file",
                    "backup_directory", "backup_path", "filter_content",
                    "merge_discovery_results", "discover_app", "discover_all",
                    "add_llm_result"}
    /\ \A i \in 1..Len(results) :
           results[i].status \in {"success", "skipped", "error", "partial"}

(***************************************************************************)
(* SpecPath: safe_join called on any base and relative path.               *)
(***************************************************************************)
Bases == {output_dir, P(<<"o2">>), P(<<"out", "sub">>), P(<<"out", "lnk">>)}
Rels ==
    {<<"a.json">>, <<"cfg", "a.json">>, <<"sub", "a.json">>,
     <<"lnk", "x.json">>, <<"in", "x.json">>,
     <<"..", "..", "etc", "passwd">>, <<"sub", "..", "..", "etc">>, <<"..">>,
     <<"/", "etc", "passwd">>, <<"/", "out", "a.json">>}

InitPath ==
    /\ fs \in {w \in Worlds : w[P(<<"h", "App", "conf.json">>)].size = 100
                              /\ w[P(<<"h", "App", "Logs", "big.log">>)].size = 100}
    /\ docs = [config |-> "loaded"]
    /\ call = NoCall
    /\ results = <<>>
    /\ p_results = <<>>
    /\ p_undiscovered = <<>>

SafeJoin(base, relative) ==
    /\ call' = [op |-> "safe_join", base |-> base, relative |-> relative,
                ret |-> safe_join(fs, base, relative)]
    /\ UNCHANGED <<fs, docs, results, p_results, p_undiscovered>>

NextPath == \E base \in Bases, relative \in Rels : SafeJoin(base, relative)

SpecPath == InitPath /\ [][NextPath]_vars

(***************************************************************************)
(* SpecPolicy: SecurityManager.can_backup called on any path.              *)
(***************************************************************************)
Sources ==
    {P(<<"h", "App">>), P(<<"h", "App", "conf.json">>), P(<<"h", "App", "data.sqlite">>),
     P(<<"h", "App", "prefs.plist">>), P(<<"h", "App", "id.pem">>),
     P(<<"h", "App", "Cache">>), P(<<"h", "App", "Cache", "s.json">>),
     P(<<"h", "App", "CachedData">>), P(<<"h", "App", "CachedData", "s.json">>),
     P(<<"h", "App", "Logs">>), P(<<"h", "App", "Logs", "big.log">>),
     P(<<"h", "App", "node_modules">>), P(<<"h", "App", "node_modules", "x.json">>),
     P(<<"h", "App", "gone.json">>)}

InitPolicy ==
    /\ fs \in Worlds
    /\ docs = [config |-> "loaded"]
    /\ call = NoCall
    /\ results = <<>>
    /\ p_results = <<>>
    /\ p_undiscovered = <<>>

CanBackup(path, statOK) ==
    /\ call' = [op |-> "can_backup", path |-> path, statOK |-> statOK,
                ret |-> can_backup(fs, SecurityPatterns, path, statOK)]
    /\ UNCHANGED <<fs, docs, results, p_results, p_undiscovered>>

NextPolicy == \E path \in Sources, statOK \in BOOLEAN : CanBackup(path, statOK)

SpecPolicy == InitPolicy /\ [][NextPolicy]_vars

(***************************************************************************)
(* SpecBackup: one call of a fresh ConfigBackup(output_dir) on a           *)
(* filesystem that may hold what earlier runs left under the output root.  *)
(***************************************************************************)
Tiers == {"hints", "conventions", "llm", "unknown"}
FilterSecrets == {"default", "no"}
DestRels ==
    {<<"a.json">>, <<"cfg", "a.json">>, <<"lnk", "x.json">>,
     <<"..", "..", "etc", "passwd">>, <<"/", "etc", "passwd">>}
BackupSources ==
    {P(<<"h", "App">>), P(<<"h", "App", "conf.json">>), P(<<"h", "App", "data.sqlite">>),
     P(<<"h", "App", "prefs.plist">>), P(<<"h", "App", "Cache">>),
     P(<<"h", "App", "Cache", "s.json">>), P(<<"h", "App", "CachedData">>),
     P(<<"h", "App", "CachedData", "s.json">>), P(<<"h", "App", "Logs", "big.log">>),
     P(<<"h", "App", "gone.json">>)}
ExcludePatterns == {<<>>, <<Glob("star", <<"Cache">>, "Cache*")>>}

InitBackup ==
    /\ fs \in {w \in Worlds : w[P(<<"h", "App", "conf.json">>)].size = 100
                              /\ w[P(<<"h", "App", "Logs", "big.log">>)].size > 100
                              /\ P(<<"out", "in">>) \notin DOMAIN w
                              /\ P(<<"out", "lnk">>) \in DOMAIN w}
    /\ docs \in {[config |-> c] : c \in {"loaded", "missing", "malformed"}}
    /\ call = NoCall
    /\ results = <<>>
    /\ p_results = <<>>
    /\ p_undiscovered = <<>>

Called(op, source, relative_dest, filter_secrets, discovery_tier, exclude_patterns, env, d) ==
    /\ call' = [op |-> op, source |-> source, relative_dest |-> relative_dest,
                filter_secrets |-> filter_secrets, discovery_tier |-> discovery_tier,
                exclude_patterns |-> exclude_patterns, env |-> env, ret |-> d.ret]
    /\ fs' = d.fs
    /\ results' = IF d.recorded THEN Append(results, d.ret) ELSE results
    /\ UNCHANGED <<docs, p_results, p_undiscovered>>

BackupFile(source, relative_dest, filter_secrets, discovery_tier, env) ==
    Called("backup_file", source, relative_dest, filter_secrets, discovery_tier, <<>>, env,
           backup_file(fs, docs.config, source, relative_dest, filter_secrets,
                       discovery_tier, env))

BackupDirectory(source, relative_dest, filter_secrets, discovery_tier, exclude_patterns, env) ==
    Called("backup_directory", source, relative_dest, filter_secrets, discovery_tier,
           exclude_patterns, env,
           backup_directory(fs, docs.config, source, relative_dest, filter_secrets,
                            discovery_tier, exclude_patterns, env))

BackupPath(source, relative_dest, filter_secrets, discovery_tier, exclude_patterns, env) ==
    Called("backup_path", source, relative_dest, filter_secrets, discovery_tier,
           exclude_patterns, env,
           backup_path(fs, docs.config, source, relative_dest, filter_secrets,
                       discovery_tier, exclude_patterns, env))

BackupFileCall ==
    /\ call.op = "none"
    /\ \E source \in BackupSources, relative_dest \in DestRels,
          filter_secrets \in FilterSecrets, discovery_tier \in Tiers, env \in Envs :
           BackupFile(source, relative_dest, filter_secrets, discovery_tier, env)

BackupDirectoryCall ==
    /\ call.op = "none"
    /\ \E source \in BackupSources, relative_dest \in DestRels,
          filter_secrets \in FilterSecrets, discovery_tier \in Tiers, env \in Envs,
          exclude_patterns \in ExcludePatterns :
           BackupDirectory(source, relative_dest, filter_secrets, discovery_tier,
                           exclude_patterns, env)

BackupPathCall ==
    /\ call.op = "none"
    /\ \E source \in BackupSources, relative_dest \in DestRels,
          filter_secrets \in FilterSecrets, discovery_tier \in Tiers, env \in Envs :
           BackupPath(source, relative_dest, filter_secrets, discovery_tier, <<>>, env)

NextBackup == BackupFileCall \/ BackupDirectoryCall \/ BackupPathCall

SpecBackup == InitBackup /\ [][NextBackup]_vars

(***************************************************************************)
(* Properties of path safety and of the rejection of unsafe destinations.  *)
(***************************************************************************)
\* a relative path that is absolute or has a ".." segment
Traversal(rel) == IsAbsolute(rel) \/ \E i \in 1..Len(rel) : rel[i] = ".."

BackupOps == {"backup_file", "backup_directory", "backup_path"}

\* C1: a backup_file or backup_directory call (direct or through backup_path)
\* whose relative destination is absolute or has a ".." segment returns a
\* status other than 'success' and leaves the filesystem as it was, whatever
\* the source and the discovery tier.
C1_TraversalRejectedBeforeWrite ==
    [][(call'.op \in BackupOps /\ Traversal(call'.relative_dest))
          => (call'.ret.status # "success" /\ fs' = fs)]_vars

\* an existing file offered from hints with a destination that climbs out of
\* the output root, answered with an error
C1_Witness ==
    /\ call.op = "backup_file"
    /\ call.relative_dest = <<"..", "..", "etc", "passwd">>
    /\ call.discovery_tier = "hints"
    /\ IsFile(fs, call.source)
    /\ call.env = AllOK
    /\ call.ret.status = "error"

\* C2: safe_join raises for every relative path that is absolute or has a
\* ".." segment, for every base, and the rejected call leaves no filesystem
\* entry that was not there before.
C2_SafeJoinRaisesOnTraversal ==
    [][(call'.op = "safe_join" /\ Traversal(call'.relative))
          => (call'.ret.raised /\ call'.ret.dest = <<>> /\ DOMAIN fs' = DOMAIN fs)]_vars

\* a ".." in the middle of a path that starts inside the base, rejected
C2_Witness ==
    /\ call.op = "safe_join"
    /\ call.relative = <<"sub", "..", "..", "etc">>
    /\ call.ret.raised

\* C3: a path returned by safe_join is fully resolved and lies inside the
\* resolved base; a relative path that passes the lexical check but resolves
\* outside the resolved base makes safe_join raise.
C3_SafeJoinStaysInsideResolvedBase ==
    call.op = "safe_join" =>
        LET base_resolved == Resolve(fs, call.base)
            target == Resolve(fs, Join(call.base, call.relative))
        IN  /\ ~call.ret.raised =>
                  /\ IsPrefix(base_resolved, call.ret.dest)
                  /\ Resolve(fs, call.ret.dest) = call.ret.dest
            /\ (~Traversal(call.relative) /\ ~IsPrefix(base_resolved, target))
                  => call.ret.raised

\* a relative path without "..", through a link under the base that leads to
\* /etc, rejected
C3_Witness ==
    /\ call.op = "safe_join"
    /\ call.base = output_dir
    /\ call.relative = <<"lnk", "x.json">>
    /\ IsLink(fs, P(<<"out", "lnk">>))
    /\ ~Traversal(call.relative)
    /\ call.ret.raised

(***************************************************************************)
(* Properties of the exclusion policy and of the tier-dependent filter.    *)
(***************************************************************************)
\* the path has a directory of that name above its last part
Under(path, dirname) == \E i \in 2..(Len(path) - 1) : path[i] = dirname

\* the destination was accepted and its directory can be made
DestUsable == call.ret.dest # <<>> /\ ~MkdirFails(fs, Parent(call.ret.dest))
                                  /\ ~WriteFails(fs, call.ret.dest)

\* C6 (as amended): an existing file under a directory that ConfigFilter
\* excludes by name is skipped by the tier filter when backed up with tier
\* 'conventions'.  With tier 'hints' the tier filter is not consulted: the
\* file under 'CachedData' ends with status 'success' (no I/O failure, usable
\* destination), the file under 'Cache' is skipped in this tier too, by the
\* exclusion policy's cache substring rule.
C6_HintsBypassTierFilterOnly ==
    (/\ call.op = "backup_file"
     /\ call.ret.dest # <<>>
     /\ IsFile(fs, call.source)
     /\ _is_in_excluded_directory(call.source) # 0)
    => /\ call.discovery_tier = "conventions"
            => call.ret.status = "skipped" /\ call.ret.tier_filtered
       /\ (call.discovery_tier = "hints" /\ Under(call.source, "Cache"))
            => /\ call.ret.status = "skipped"
               /\ ~call.ret.tier_filtered
               /\ call.ret.reason = "substring"
       /\ (/\ call.discovery_tier = "hints"
           /\ Under(call.source, "CachedData")
           /\ call.env = AllOK
           /\ DestUsable)
            => call.ret.status = "success"

\* the file under CachedData, from hints, copied
C6_Witness ==
    /\ call.op = "backup_file"
    /\ call.source = P(<<"h", "App", "CachedData", "s.json">>)
    /\ call.discovery_tier = "hints"
    /\ call.ret.status = "success"
    /\ Exists(fs, call.ret.dest)

\* C6 as stated: the file under 'Cache' ends 'success' from hints and
\* 'skipped' from conventions.
C6_AsStated ==
    (/\ call.op = "backup_file"
     /\ IsFile(fs, call.source)
     /\ Under(call.source, "Cache")
     /\ call.env = AllOK
     /\ DestUsable)
    => /\ call.discovery_tier = "hints" => call.ret.status = "success"
       /\ call.discovery_tier = "conventions" => call.ret.status = "skipped"

\* what each check of can_backup rejects
FailsCheck(check, f, path, statOK) ==
    LET pats == SecurityPatterns
        n == Name(path)
    IN
    CASE check = "substring" -> \E i \in 1..Len(cache_patterns) : InPathStr(path, cache_patterns[i])
      [] check = "size" ->
            IsFile(f, path) /\ (~statOK \/ TooLarge(f, path, pats.max_file_size_mb))
      [] check = "extension" -> LowerName(Suffix(n)) \in excluded_extensions
      [] check = "exclude_files" ->
            /\ IsFile(f, path)
            /\ \E i \in 1..Len(pats.exclude_files) :
                   \/ FnMatchName(n, pats.exclude_files[i])
                   \/ FnMatchSubstring(path, pats.exclude_files[i])
      [] check = "exclude_by_extension" ->
            /\ IsFile(f, path)
            /\ \E i \in 1..Len(pats.exclude_by_extension) :
                   FnMatchName(n, pats.exclude_by_extension[i])
      [] check = "exclude_by_pattern" ->
            \E i \in 1..Len(pats.exclude_by_pattern) :
                \/ (IsFile(f, path) \/ IsDir(f, path))
                      /\ FnMatchPath(path, pats.exclude_by_pattern[i], FALSE)
                \/ IsDir(f, path) /\ FnMatchPath(path, pats.exclude_by_pattern[i], TRUE)
      [] check = "exclude_directories" ->
            /\ IsDir(f, path)
            /\ \E i \in 1..Len(pats.exclude_directories) :
                   FnMatchName(n, pats.exclude_directories[i])
      [] check = "parent" ->
            \E a \in Ancestors(IF IsDir(f, path) THEN path ELSE Parent(path)) :
                \E i \in 1..Len(pats.exclude_directories) :
                    FnMatchName(Name(a), pats.exclude_directories[i])
      [] OTHER -> FALSE

StatedOrder ==
    <<"substring", "size", "extension", "exclude_files", "exclude_by_extension",
      "exclude_by_pattern", "exclude_directories", "parent">>

DirectoryOrder ==
    <<"substring", "size", "extension", "exclude_files", "exclude_by_extension",
      "exclude_directories", "exclude_by_pattern", "parent">>

RuleOf(reason) == IF reason.rule = "cannot_check_size" THEN "size" ELSE reason.rule

\* the verdict is that of the first failing check of the order
FirstFailureWins(order) ==
    LET k == FirstIndex(order, LAMBDA c : FailsCheck(c, fs, call.path, call.statOK)) IN
    /\ call.ret.excluded <=> k # 0
    /\ k # 0 => RuleOf(call.ret.reason) = order[k]
    /\ k = 0 => call.ret.reason = NoReason

\* C7 (as amended): can_backup returns the reason of the first failing check
\* in the order substring, size, hard-excluded extension, exclude-files,
\* exclude-by-extension, exclude-by-pattern, directory name, parent directory
\* for a file, and with the directory name checked before exclude-by-pattern
\* for a directory; a path rejected by the substring check never has its size
\* evaluated.
C7_FirstFailingCheckWins ==
    call.op = "can_backup" =>
        /\ FirstFailureWins(IF IsDir(fs, call.path) THEN DirectoryOrder ELSE StatedOrder)
        /\ call.ret.reason.rule = "substring"
              => \A i \in 1..Len(call.ret.evaluated) : call.ret.evaluated[i] # "size"

\* the 15 MiB log file under Logs, rejected for the substring
C7_Witness ==
    /\ call.op = "can_backup"
    /\ call.path = P(<<"h", "App", "Logs", "big.log">>)
    /\ call.statOK
    /\ TooLarge(fs, call.path, DEFAULT_MAX_FILE_SIZE_MB)
    /\ call.ret.reason = Reason("substring", "logs")
    /\ call.ret.evaluated = <<"substring">>

\* C7 as stated: one fixed order for every path, exclude-by-pattern before the
\* directory name.
C7_AsStated == call.op = "can_backup" => FirstFailureWins(StatedOrder)

(***************************************************************************)
(* backup/security.py: SecretFilter.  A text is a sequence of characters.  *)
(* A compiled pattern is one of two shapes of regular expression:          *)
(*   run   "[c]{min,}"   a greedy run of the characters of a class         *)
(*   lit   "text"        a literal text                                    *)
(* and a replacement is a literal text.                                    *)
(***************************************************************************)
Rep(c, n) == [i \in 1..n |-> c]
RunOf(class, min) == [t |-> "run", class |-> class, min |-> min, v |-> <<>>]
Lit(v) == [t |-> "lit", class |-> {}, min |-> 0, v |-> v]
Rule(name, pattern, replacement) ==
    [name |-> name, pattern |-> pattern, replacement |-> replacement]

RECURSIVE RunLength(_, _, _)
RunLength(class, text, i) ==
    IF i > Len(text) \/ text[i] \notin class THEN 0
    ELSE 1 + RunLength(class, text, i + 1)

\* the length of the match of the pattern that starts at i, 0 when none
MatchLenAt(pattern, text, i) ==
    IF pattern.t = "run"
    THEN LET n == RunLength(pattern.class, text, i) IN
         IF n >= pattern.min THEN n ELSE 0
    ELSE IF /\ i + Len(pattern.v) - 1 <= Len(text)
            /\ SubSeq(text, i, i + Len(pattern.v) - 1) = pattern.v
    THEN Len(pattern.v) ELSE 0

\* pattern.finditer(text): the leftmost non-overlapping matches, in order
RECURSIVE finditer(_, _, _)
finditer(pattern, text, i) ==
    IF i > Len(text) THEN <<>>
    ELSE LET n == MatchLenAt(pattern, text, i) IN
         IF n > 0
         THEN <<[start |-> i, group |-> SubSeq(text, i, i + n - 1)]>>
                  \o finditer(pattern, text, i + n)
         ELSE finditer(pattern, text, i + 1)

\* pattern.sub(replacement, text)
RECURSIVE sub(_, _, _, _)
sub(pattern, replacement, text, i) ==
    IF i > Len(text) THEN <<>>
    ELSE LET n == MatchLenAt(pattern, text, i) IN
         IF n > 0
         THEN replacement \o sub(pattern, replacement, text, i + n)
         ELSE <<text[i]>> \o sub(pattern, replacement, text, i + 1)

Dots == <<".", ".", ".">>

_truncate_secret_KeepShort(value) ==
    IF Len(value) <= 20
    THEN IF Len(value) > 8 THEN SubSeq(value, 1, 4) \o Dots ELSE value
    ELSE SubSeq(value, 1, 8) \o Dots \o SubSeq(value, Len(value) - 3, Len(value))

_truncate_secret_NoTail(value) ==
    IF Len(value) <= 20
    THEN IF Len(value) > 8 THEN SubSeq(value, 1, 4) \o Dots ELSE Dots
    ELSE SubSeq(value, 1, 8) \o Dots

\* _truncate_secret(value, max_len=20)
_truncate_secret(value) ==
    IF Len(value) <= 20
    THEN IF Len(value) > 8 THEN SubSeq(value, 1, 4) \o Dots ELSE Dots
    ELSE SubSeq(value, 1, 8) \o Dots \o SubSeq(value, Len(value) - 3, Len(value))

\* filtered[:match.start()].count('\n') + 1
LineOf(text, start) == Cardinality({i \in 1..(start - 1) : text[i] = "\n"}) + 1

\* the changes one rule appends, its matches taken on the text given
ChangesOf(rule, text, filename) ==
    LET ms == finditer(rule.pattern, text, 1) IN
    [i \in 1..Len(ms) |->
        [pattern |-> rule.name, original |-> _truncate_secret(ms[i].group),
         line |-> LineOf(text, ms[i].start), filename |-> filename]]

FilterOut(filtered, changes) == [filtered |-> filtered, changes |-> changes]

RECURSIVE filter_loop_OnContent(_, _, _, _, _, _)
filter_loop_OnContent(rules, k, content, filtered, changes, filename) ==
    IF k > Len(rules) THEN FilterOut(filtered, changes)
    ELSE filter_loop_OnContent(rules, k + 1, content,
             sub(rules[k].pattern, rules[k].replacement, filtered, 1),
             changes \o ChangesOf(rules[k], content, filename), filename)

\* the loop over self.compiled_patterns from rule k on
RECURSIVE filter_loop(_, _, _, _, _, _)
filter_loop(rules, k, content, filtered, changes, filename) ==
    IF k > Len(rules) THEN FilterOut(filtered, changes)
    ELSE filter_loop(rules, k + 1, content,
             sub(rules[k].pattern, rules[k].replacement, filtered, 1),
             changes \o ChangesOf(rules[k], filtered, filename), filename)

filter_content(rules, content, filename) ==
    filter_loop(rules, 1, content, content, <<>>, filename)

(***************************************************************************)
(* SpecFilter: filter_content called on a text made of a few pieces, under *)
(* a short list of rules.                                                  *)
(***************************************************************************)
Pieces == {Rep("k", 3), Rep("k", 9), Rep("k", 21), Dots, <<"\n">>}

RECURSIVE Concat(_)
Concat(ss) == IF ss = <<>> THEN <<>> ELSE Head(ss) \o Concat(Tail(ss))

SeqsUpTo(S, n) == UNION {[1..m -> S] : m \in 0..n}

Contents == {Concat(ps) : ps \in SeqsUpTo(Pieces, MaxPieces)}

Rules ==
    {Rule("keys", RunOf({"k"}, 3), <<"x", "x">>),
     Rule("dots", RunOf({"."}, 1), <<"x">>),
     Rule("marks", RunOf({"x"}, 1), Rep("k", 3)),
     Rule("newline", Lit(<<"\n">>), <<>>)}

RuleLists == SeqsUpTo(Rules, MaxRules)

InitFilter ==
    /\ fs = <<>>
    /\ docs = [config |-> "loaded"]
    /\ call = NoCall
    /\ results = <<>>
    /\ p_results = <<>>
    /\ p_undiscovered = <<>>

FilterContent(rules, content) ==
    /\ call' = [op |-> "filter_content", rules |-> rules, content |-> content,
                ret |-> filter_content(rules, content, "f")]
    /\ UNCHANGED <<fs, docs, results, p_results, p_undiscovered>>

NextFilter ==
    /\ call.op = "none"
    /\ \E rules \in RuleLists, content \in Contents : FilterContent(rules, content)

SpecFilter == InitFilter /\ [][NextFilter]_vars

(***************************************************************************)
(* Properties of SecretFilter.filter_content.                              *)
(***************************************************************************)
\* the text after the first k rules, applied one after the other
RECURSIVE TextAfter(_, _, _)
TextAfter(rules, content, k) ==
    IF k = 0 THEN content
    ELSE sub(rules[k].pattern, rules[k].replacement, TextAfter(rules, content, k - 1), 1)

\* the matches of rules k.. in the order filter_content meets them, each with
\* its rule, its full span and its line in the text rule k sees
RECURSIVE MatchesFrom(_, _, _)
MatchesFrom(rules, content, k) ==
    IF k > Len(rules) THEN <<>>
    ELSE LET text == TextAfter(rules, content, k - 1)
             ms == finditer(rules[k].pattern, text, 1)
         IN  [i \in 1..Len(ms) |->
                 [pattern |-> rules[k].name, span |-> ms[i].group,
                  line |-> LineOf(text, ms[i].start)]]
             \o MatchesFrom(rules, content, k + 1)

Met == MatchesFrom(call.rules, call.content, 1)

\* C4 (as amended): filter_content records one Change per matched span, and
\* the 'original' of a Change equals the complete matched span only when the
\* span is itself the three-character placeholder "...".
C4_OriginalIsNotTheSpan ==
    call.op = "filter_content" =>
        /\ Len(call.ret.changes) = Len(Met)
        /\ \A i \in 1..Len(Met) :
               call.ret.changes[i].original = Met[i].span => Met[i].span = Dots

\* one call that met a span of at most 8 characters and one of more than 20,
\* both recorded shortened
C4_Witness ==
    /\ call.op = "filter_content"
    /\ \E i, j \in 1..Len(Met) :
           /\ Len(Met[i].span) <= 8 /\ Met[i].span # Dots
           /\ call.ret.changes[i].original = Dots
           /\ Len(Met[j].span) > 20
           /\ Len(call.ret.changes[j].original) = 15

\* C4 as stated: the 'original' of a Change never equals the matched span.
C4_AsStated ==
    call.op = "filter_content" =>
        \A i \in 1..Len(Met) :
            i <= Len(call.ret.changes) => call.ret.changes[i].original # Met[i].span

\* C5: the returned text is the left-to-right fold of the rules'
\* substitutions, and the Changes of rule k, with their line numbers, are
\* those of its matches on the text produced by rules 1..k-1.
C5_RulesFoldInOrder ==
    call.op = "filter_content" =>
        /\ call.ret.filtered = TextAfter(call.rules, call.content, Len(call.rules))
        /\ Len(call.ret.changes) = Len(Met)
        /\ \A i \in 1..Len(Met) :
               /\ call.ret.changes[i].pattern = Met[i].pattern
               /\ call.ret.changes[i].line = Met[i].line

\* the second rule matched the text the first rule put in: the input has no
\* "x", the rule "marks" only matches "x"
C5_Witness ==
    /\ call.op = "filter_content"
    /\ Len(call.rules) = 2
    /\ call.rules[1].name = "keys" /\ call.rules[2].name = "marks"
    /\ \A i \in 1..Len(call.content) : call.content[i] # "x"
    /\ \E i \in 1..Len(call.ret.changes) : call.ret.changes[i].pattern = "marks"
    /\ \E i \in 1..Len(call.ret.filtered) : call.ret.filtered[i] = "k"

(***************************************************************************)
(* discovery/hints.py and discovery/conventions.py.                        *)
(*                                                                         *)
(* A path string relative to $HOME or $XDG_CONFIG_HOME is the tuple of its *)
(* parts, a trailing "/" kept as a last part "/".  An optional value is a  *)
(* sequence: <<>> for None (or an empty dict), <<v>> for a value.          *)
(***************************************************************************)
None == <<>>
Some(v) == <<v>>

home == <<"/", "h">>
\* the environment variable XDG_CONFIG_HOME, unset where a specification
\* does not give the environment
XDG_CONFIG_HOME ==
    IF "XDG_CONFIG_HOME" \in DOMAIN docs THEN docs.XDG_CONFIG_HOME ELSE <<>>
\* "Path(os.environ.get('XDG_CONFIG_HOME', home / '.config'))"
xdg_config_home ==
    IF XDG_CONFIG_HOME = <<>> THEN <<"/", "h", ".config">> ELSE XDG_CONFIG_HOME[1]

\* str.rstrip('/')
RECURSIVE RStrip(_)
RStrip(s) == IF s # <<>> /\ Last(s) = "/" THEN RStrip(Front(s)) ELSE s

\* base / path_str
Under_(base, path_str) == Join(base, RStrip(path_str))

\* the order of str on the names of the model (code points: "." before the
\* upper-case letters, these before the lower-case ones)
NameRank(n) ==
    CASE n = "/" -> 0
      [] n = ".Docker" -> 1
      [] n = ".Empty" -> 2
      [] n = ".Tool" -> 3
      [] n = ".Whale" -> 4
      [] n = ".config" -> 5
      [] n = ".docker" -> 6
      [] n = ".empty" -> 7
      [] n = ".gone" -> 8
      [] n = ".tool" -> 9
      [] n = ".whale" -> 10
      [] n = "Application Support" -> 11
      [] n = "Docker" -> 12
      [] n = "Library" -> 13
      [] n = "Preferences" -> 14
      [] n = "Tool" -> 15
      [] n = "com.docker.docker" -> 16
      [] n = "com.docker.docker.plist" -> 17
      [] n = "config.json" -> 18
      [] n = "docker" -> 19
      [] n = "etc" -> 20
      [] n = "h" -> 21
      [] n = "lnk" -> 22
      [] n = "passwd" -> 23
      [] n = "tool" -> 24
      [] n = "x" -> 25
      [] n = "xdg" -> 26
      [] OTHER -> 27

RECURSIVE StrLess(_, _)
StrLess(a, b) ==
    IF a = <<>> THEN b # <<>>
    ELSE IF b = <<>> THEN FALSE
    ELSE IF Head(a) = Head(b) THEN StrLess(Tail(a), Tail(b))
    ELSE NameRank(Head(a)) < NameRank(Head(b))

\* sorted(values): the values are pairwise different
RECURSIVE sorted(_)
sorted(S) ==
    IF S = {} THEN <<>>
    ELSE LET m == CHOOSE x \in S : \A y \in S : x = y \/ StrLess(x, y)
         IN  <<m>> \o sorted(S \ {m})

Range(seq) == {seq[i] : i \in 1..Len(seq)}

\* an entry of app-hints.yaml
HintsEntry(bundle_id, configuration_files, xdg_configuration_files, install_method, notes) ==
    [bundle_id |-> bundle_id, configuration_files |-> configuration_files,
     xdg_configuration_files |-> xdg_configuration_files,
     install_method |-> install_method, extensions_cmd |-> None,
     exclude_files |-> <<>>, notes |-> notes, _hints_key |-> ""]

\* app_name.lower().replace(' ', '-').replace('_', '-')
normalized_name(app_name) ==
    CASE app_name = "Apple Notes" -> "apple-notes"
      [] OTHER -> LowerName(app_name)

\* bundle_id.split('.')[-1].lower()
bundle_suffix(bundle_id) ==
    CASE bundle_id = "com.docker.docker" -> "docker"
      [] bundle_id = "com.apple.Notes" -> "notes"
      [] OTHER -> bundle_id

\* get_app_settings: the entry found, with the key it was found under.  No
\* name of the model ends with '.app', '-app' or ' app'.
get_app_settings(hints_db, app_name, bundle_id) ==
    LET name == normalized_name(app_name)
        keys == DOMAIN hints_db
        byBundle == {k \in keys : bundle_id # None /\ hints_db[k].bundle_id = bundle_id}
    IN
    IF name \in keys THEN Some([hints_db[name] EXCEPT !._hints_key = name])
    ELSE IF byBundle # {}
    THEN LET k == CHOOSE k \in byBundle : TRUE IN Some([hints_db[k] EXCEPT !._hints_key = k])
    ELSE IF bundle_id # None /\ bundle_suffix(bundle_id[1]) \in keys
    THEN LET k == bundle_suffix(bundle_id[1]) IN Some([hints_db[k] EXCEPT !._hints_key = k])
    ELSE None

\* generate_name_variations on the one-word names of the model: the name, then its
\* lower-case form (the hyphenated, unseparated, underscored and first-word
\* forms of a one-word name are that same form)
generate_name_variations(app_name) == <<app_name, LowerName(app_name)>>

\* generate_bundle_id_variations: the id, its last component twice (as it is
\* and lower-cased), its last two components
generate_bundle_id_variations(bundle_id) ==
    CASE bundle_id = "com.docker.docker" ->
            <<"com.docker.docker", "docker", "docker", "docker.docker">>
      [] OTHER -> <<bundle_id>>

\* f".{name}", f"{bid}.plist", f"group.{bid}"
DotName(name) ==
    CASE name = "Docker" -> ".Docker"
      [] name = "docker" -> ".docker"
      [] name = "Tool" -> ".Tool"
      [] name = "tool" -> ".tool"
      [] name = "Empty" -> ".Empty"
      [] name = "empty" -> ".empty"
      [] name = "Whale" -> ".Whale"
      [] name = "whale" -> ".whale"
      [] OTHER -> ".other"
PlistName(bid) ==
    CASE bid = "com.docker.docker" -> "com.docker.docker.plist"
      [] bid = "docker.docker" -> "docker.docker.plist"
      [] bid = "docker" -> "docker.plist"
      [] OTHER -> "other.plist"
GroupName(bid) ==
    CASE bid = "com.docker.docker" -> "group.com.docker.docker"
      [] bid = "docker.docker" -> "group.docker.docker"
      [] bid = "docker" -> "group.docker"
      [] OTHER -> "group.other"

\* "Remove duplicates while preserving order (case-insensitive for macOS)"
RECURSIVE UniqueLower(_, _)
UniqueLower(seq, seen) ==
    IF seq = <<>> THEN <<>>
    ELSE IF LowerPath(Head(seq)) \in seen THEN UniqueLower(Tail(seq), seen)
    ELSE <<Head(seq)>> \o UniqueLower(Tail(seq), seen \cup {LowerPath(Head(seq))})

home_relative_candidates(app_name, bundle_id) ==
    LET names == generate_name_variations(app_name)
        bids == IF bundle_id = None THEN <<>>
                ELSE generate_bundle_id_variations(bundle_id[1])
        ForName(name) ==
            <<<<DotName(name), "/">>, <<"Library", "Application Support", name, "/">>>>
        ForBundle(bid) ==
            <<<<"Library", "Application Support", bid, "/">>,
              <<"Library", "Preferences", PlistName(bid)>>,
              <<"Library", "Containers", bid, "/">>,
              <<"Library", "Containers", bid, "Data", "Library", "Preferences", "/">>,
              <<"Library", "Containers", bid, "Data", "Library", "Application Support", "/">>,
              <<"Library", "Group Containers", bid, "/">>,
              <<"Library", "Group Containers", GroupName(bid), "/">>>>
    IN  UniqueLower(Concat([i \in 1..Len(names) |-> ForName(names[i])])
                    \o Concat([i \in 1..Len(bids) |-> ForBundle(bids[i])]),
                    {})

xdg_relative_candidates(app_name) ==
    LET names == generate_name_variations(app_name) IN
    UniqueLower([i \in 1..Len(names) |-> <<names[i], "/">>], {})

\* str(path.resolve()).lower()
_normalize_path_for_dedup(f, path) == LowerPath(Resolve(f, path))

\* the candidates that exist, one per resolved lower-cased location; seen is
\* shared by the two loops
RECURSIVE FoundAmong(_, _, _, _)
FoundAmong(f, base, candidates, seen) ==
    IF candidates = <<>> THEN [found |-> <<>>, seen |-> seen]
    ELSE LET path == Head(candidates)
             full_path == Under_(base, path)
             key == _normalize_path_for_dedup(f, full_path)
             fresh == PathExists(f, full_path) /\ key \notin seen
             rest == FoundAmong(f, base, Tail(candidates),
                                IF fresh THEN seen \cup {key} ELSE seen)
         IN  [found |-> (IF fresh THEN <<RStrip(path)>> ELSE <<>>) \o rest.found,
              seen |-> rest.seen]

discover_from_conventions(f, app_name, bundle_id) ==
    LET h == FoundAmong(f, home, home_relative_candidates(app_name, bundle_id), {})
        x == FoundAmong(f, xdg_config_home, xdg_relative_candidates(app_name), h.seen)
        total_found == Len(h.found) + Len(x.found)
    IN  [app_name |-> app_name, bundle_id |-> bundle_id,
         configuration_files |-> h.found, xdg_configuration_files |-> x.found,
         confidence |-> IF total_found = 0 THEN "low"
                        ELSE IF total_found = 1 THEN "medium" ELSE "high",
         source |-> "conventions"]

(***************************************************************************)
(* discovery/merge.py                                                      *)
(***************************************************************************)
DiscoveryResult(app_name, bundle_id) ==
    [app_name |-> app_name, bundle_id |-> bundle_id, canonical_key |-> None,
     configuration_files |-> <<>>, xdg_configuration_files |-> <<>>,
     resolved_paths |-> <<>>, source |-> "unknown", confidence |-> "low",
     install_method |-> None, extensions_cmd |-> None, exclude_files |-> <<>>,
     notes |-> None, needs_llm_discovery |-> FALSE,
     hints_paths |-> <<>>, conventions_paths |-> <<>>, llm_paths |-> <<>>,
     found_in_hints |-> FALSE]

has_settings(r) ==
    \/ r.configuration_files # <<>>
    \/ r.xdg_configuration_files # <<>>
    \/ r.resolved_paths # <<>>
    \/ r.hints_paths # <<>>
    \/ r.conventions_paths # <<>>
    \/ r.llm_paths # <<>>

\* path.rstrip('/').lower()
_normalize_config_path(path) == LowerPath(RStrip(path))

\* a dict as the sequence of its (key, value) pairs in insertion order
Keys(map) == {map[i].key : i \in 1..Len(map)}
Values(map) == {map[i].value : i \in 1..Len(map)}
SetDefault(map, key, value) ==
    IF key \in Keys(map) THEN map ELSE Append(map, [key |-> key, value |-> value])

\* add_config_path and add_xdg_path
add_config_path(map, path) == SetDefault(map, _normalize_config_path(path), RStrip(path))

\* validate_paths: the existing paths, resolved, one per resolved lower-cased
\* location, in the order met
RECURSIVE ValidAmong(_, _, _, _)
ValidAmong(f, base, paths, seen) ==
    IF paths = <<>> THEN [valid |-> <<>>, seen |-> seen]
    ELSE LET full_path == Under_(base, Head(paths))
             key == _normalize_path_for_dedup(f, full_path)
             fresh == PathExists(f, full_path) /\ key \notin seen
             rest == ValidAmong(f, base, Tail(paths), IF fresh THEN seen \cup {key} ELSE seen)
         IN  [valid |-> (IF fresh THEN <<Resolve(f, full_path)>> ELSE <<>>) \o rest.valid,
              seen |-> rest.seen]

validate_paths(f, configuration_files, xdg_configuration_files) ==
    LET h == ValidAmong(f, home, configuration_files, {})
        x == ValidAmong(f, xdg_config_home, xdg_configuration_files, h.seen)
    IN  h.valid \o x.valid

resolve_and_add_tier_path_Unkeyed(f, cf, relative_path, tier_map, is_xdg, apply_filter) ==
    LET full_path == Under_(IF is_xdg THEN xdg_config_home ELSE home, relative_path)
        resolved == Resolve(f, full_path)
    IN  IF ~PathExists(f, full_path) THEN tier_map
        ELSE Append(tier_map, [key |-> resolved, value |-> resolved])

resolve_and_add_tier_path_Unfiltered(f, cf, relative_path, tier_map, is_xdg, apply_filter) ==
    LET full_path == Under_(IF is_xdg THEN xdg_config_home ELSE home, relative_path)
        resolved == Resolve(f, full_path)
        key == _normalize_path_for_dedup(f, resolved)
    IN  IF ~PathExists(f, full_path) THEN tier_map
        ELSE IF key \in Keys(tier_map) THEN tier_map
        ELSE Append(tier_map, [key |-> key, value |-> resolved])

resolve_and_add_tier_path(f, cf, relative_path, tier_map, is_xdg, apply_filter) ==
    LET full_path == Under_(IF is_xdg THEN xdg_config_home ELSE home, relative_path)
        resolved == Resolve(f, full_path)
        key == _normalize_path_for_dedup(f, resolved)
    IN  IF ~PathExists(f, full_path) THEN tier_map
        ELSE IF key \in Keys(tier_map) THEN tier_map
        ELSE IF apply_filter /\ IsFile(f, resolved)
                /\ ~is_config_file(f, cf, resolved, TRUE).valid THEN tier_map
        ELSE IF apply_filter /\ IsDir(f, resolved)
                /\ ~is_config_directory(f, cf, resolved).valid THEN tier_map
        ELSE Append(tier_map, [key |-> key, value |-> resolved])

\* one loop of merge_discovery_results over the paths of a tier: the generic
\* map and the tier map it leaves; taken holds the keys of the earlier tiers
RECURSIVE TierLoop(_, _, _, _, _, _, _, _)
TierLoop(f, cf, paths, generic, tier_map, is_xdg, apply_filter, taken) ==
    IF paths = <<>> THEN [generic |-> generic, tier |-> tier_map]
    ELSE LET path == Head(paths)
             full_path == Under_(IF is_xdg THEN xdg_config_home ELSE home, path)
             free == \/ ~apply_filter
                     \/ /\ PathExists(f, full_path)
                        /\ _normalize_path_for_dedup(f, Resolve(f, full_path)) \notin taken
         IN  TierLoop(f, cf, Tail(paths), add_config_path(generic, path),
                      IF free
                      THEN resolve_and_add_tier_path(f, cf, path, tier_map, is_xdg, apply_filter)
                      ELSE tier_map,
                      is_xdg, apply_filter, taken)

\* dict.get(key) of an optional result
Get(opt, field, default) == IF opt = None THEN default ELSE opt[1][field]
FirstSet(a, b) == IF a # None THEN a ELSE b

\* the generic maps before any tier has run
NoPaths == [configuration_files |-> <<>>, xdg_configuration_files |-> <<>>, tier |-> <<>>]

\* the two loops of one tier, over configuration_files and then over
\* xdg_configuration_files: the generic maps and the tier map they leave
TierOf(f, cf, result, maps, apply_filter, taken) ==
    LET a == TierLoop(f, cf, Get(result, "configuration_files", <<>>),
                      maps.configuration_files, <<>>, FALSE, apply_filter, taken)
        b == TierLoop(f, cf, Get(result, "xdg_configuration_files", <<>>),
                      maps.xdg_configuration_files, a.tier, TRUE, apply_filter, taken)
    IN  [configuration_files |-> a.generic, xdg_configuration_files |-> b.generic,
         tier |-> b.tier]

\* "If found in hints, NEVER need LLM discovery", else needed without settings
final_needs_llm_discovery(r) ==
    [r EXCEPT !.needs_llm_discovery = IF r.found_in_hints THEN FALSE ELSE ~has_settings(r)]

\* the result built from the maps of the three tiers
build_result(f, hints_result, conventions_result, llm_result, app_name, bundle_id, configuration_files, xdg_configuration_files, hints_paths_map, conventions_paths_map, llm_paths_map) ==
    LET found_in_hints == hints_result # None
        use_llm == llm_result # None /\ ~found_in_hints
    IN  final_needs_llm_discovery(
            [DiscoveryResult(app_name, bundle_id) EXCEPT
                !.source = IF found_in_hints THEN "hints"
                           ELSE IF conventions_result # None THEN "conventions"
                           ELSE IF use_llm THEN "llm" ELSE "unknown",
                !.confidence = IF found_in_hints THEN "high"
                               ELSE IF conventions_result # None
                               THEN conventions_result[1].confidence
                               ELSE IF use_llm THEN llm_result[1].confidence ELSE "low",
                !.found_in_hints = found_in_hints,
                !.canonical_key = IF found_in_hints THEN Some(hints_result[1]._hints_key)
                                  ELSE None,
                !.install_method = FirstSet(Get(hints_result, "install_method", None),
                                            IF use_llm THEN llm_result[1].install_method
                                            ELSE None),
                !.extensions_cmd = Get(hints_result, "extensions_cmd", None),
                !.exclude_files = Get(hints_result, "exclude_files", <<>>),
                !.notes = FirstSet(Get(hints_result, "notes", None),
                                   IF use_llm THEN llm_result[1].notes ELSE None),
                !.bundle_id = FirstSet(Get(hints_result, "bundle_id", None),
                                       FirstSet(bundle_id,
                                                Get(conventions_result, "bundle_id", None))),
                !.configuration_files = configuration_files,
                !.xdg_configuration_files = xdg_configuration_files,
                !.resolved_paths = validate_paths(f, configuration_files,
                                                  xdg_configuration_files),
                !.hints_paths = sorted(Values(hints_paths_map)),
                !.conventions_paths = sorted(Values(conventions_paths_map)),
                !.llm_paths = sorted(Values(llm_paths_map))])

\* the final lists, from the maps the three tiers leave
merge_llm(f, hints_result, conventions_result, llm_result, app_name, bundle_id, h, c, l) ==
    build_result(f, hints_result, conventions_result, llm_result, app_name, bundle_id,
                 sorted(Values(l.configuration_files)),
                 sorted(Values(l.xdg_configuration_files)), h.tier, c.tier, l.tier)

\* llm: filtered, not what hints or conventions hold, only without hints
merge_conventions(f, cf, hints_result, conventions_result, llm_result, app_name, bundle_id, h, c) ==
    merge_llm(f, hints_result, conventions_result, llm_result, app_name, bundle_id, h, c,
              IF llm_result # None /\ hints_result = None
              THEN TierOf(f, cf, llm_result, c, TRUE, Keys(h.tier) \cup Keys(c.tier))
              ELSE [c EXCEPT !.tier = <<>>])

\* conventions: filtered, not what hints already holds
merge_hints(f, cf, hints_result, conventions_result, llm_result, app_name, bundle_id, h) ==
    merge_conventions(f, cf, hints_result, conventions_result, llm_result, app_name,
                      bundle_id, h,
                      TierOf(f, cf, conventions_result, h, TRUE, Keys(h.tier)))

\* hints: no filtering
merge_discovery_results(f, doc, hints_result, conventions_result, llm_result, app_name, bundle_id) ==
    merge_hints(f, ConfigFilter(doc), hints_result, conventions_result, llm_result,
                app_name, bundle_id,
                TierOf(f, ConfigFilter(doc), hints_result, NoPaths, FALSE, {}))

\* 'com.apple.' starts the bundle id, or 'Apple ' or 'System ' the name
IsSystemApp(app) ==
    \/ app.bundle_id # None /\ app.bundle_id[1] \in {"com.apple.Notes"}
    \/ app.name \in {"Apple Notes"}

discover_app(f, doc, app_name, bundle_id, hints_db) ==
    merge_discovery_results(f, doc, get_app_settings(hints_db, app_name, bundle_id),
                            Some(discover_from_conventions(f, app_name, bundle_id)),
                            None, app_name, bundle_id)

\* "result.needs_llm_discovery = True" of discover_all_apps
MarkNeedsLlm(result) == [result EXCEPT !.needs_llm_discovery = TRUE]

\* discover_all_apps(apps, hints_db, skip_system_apps=True): the results and the
\* undiscovered apps (their checked_paths left out)
RECURSIVE discover_all_apps(_, _, _, _)
discover_all_apps(f, doc, apps, hints_db) ==
    IF apps = <<>> THEN [discovered |-> <<>>, undiscovered |-> <<>>]
    ELSE LET app == Head(apps)
             rest == discover_all_apps(f, doc, Tail(apps), hints_db)
             result == discover_app(f, doc, app.name, app.bundle_id, hints_db)
         IN  IF IsSystemApp(app) THEN rest
             ELSE IF has_settings(result)
             THEN [rest EXCEPT !.discovered = <<result>> \o @]
             ELSE [discovered |-> <<MarkNeedsLlm(result)>> \o rest.discovered,
                   undiscovered |-> <<[name |-> app.name, bundle_id |-> app.bundle_id]>>
                                    \o rest.undiscovered]

Reverse(seq) == [i \in 1..Len(seq) |-> seq[Len(seq) + 1 - i]]

\* list(set(a + b)): the elements once each, in the order the set iterates.
\* Of the orders a set may iterate in, the model takes the ascending and
\* the descending one.
ListOfSet(a, b) ==
    LET up == sorted(Range(a) \cup Range(b)) IN {up, Reverse(up)}

\* DiscoveryPipeline.add_llm_result for the result at index i: the updated
\* results it may leave, one per order of the three rebuilt lists
add_llm_result(f, doc, result, llm_result) ==
    LET updated == merge_discovery_results(f, doc, None, None, llm_result,
                                           result.app_name, result.bundle_id)
    IN  {[updated EXCEPT
             !.configuration_files = cfs,
             !.xdg_configuration_files = xdgs,
             !.resolved_paths = rps,
             !.install_method = FirstSet(result.install_method, @),
             !.extensions_cmd = FirstSet(result.extensions_cmd, @),
             !.notes = FirstSet(result.notes, @),
             !.needs_llm_discovery = FALSE] :
         cfs \in ListOfSet(result.configuration_files, updated.configuration_files),
         xdgs \in ListOfSet(result.xdg_configuration_files, updated.xdg_configuration_files),
         rps \in ListOfSet(result.resolved_paths, updated.resolved_paths)}

(***************************************************************************)
(* SpecDiscovery: merge_discovery_results and discover_app called on their *)
(* own, and a DiscoveryPipeline that discovers a list of applications and  *)
(* is then given LLM results.                                              *)
(***************************************************************************)
\* a home directory; on a case-insensitive volume a name is found under its
\* other spelling too
HomeWorld(insensitive, link) ==
    LET H(parts) == home \o parts IN
    (P(<<>>) :> Dir) @@ (home :> Dir) @@ (P(<<"etc">>) :> Dir)
    @@ (H(<<".config">>) :> Dir)
    @@ (H(<<".docker">>) :> Dir) @@ (H(<<".docker", "config.json">>) :> File(100))
    @@ (H(<<"Library">>) :> Dir) @@ (H(<<"Library", "Preferences">>) :> Dir)
    @@ (H(<<"Library", "Preferences", "com.docker.docker.plist">>) :> BinaryPlist)
    @@ (IF insensitive
        THEN (H(<<".Docker">>) :> Dir) @@ (H(<<".Docker", "config.json">>) :> File(100))
        ELSE <<>>)
    @@ (H(<<".tool">>) :> Dir) @@ (H(<<".config", "tool">>) :> Dir)
    @@ (IF insensitive
        THEN (H(<<".Tool">>) :> Dir) @@ (H(<<".config", "Tool">>) :> Dir)
        ELSE <<>>)
    @@ (H(<<".whale">>) :> File(100))
    @@ (IF insensitive THEN (H(<<".Whale">>) :> File(100)) ELSE <<>>)
    @@ (IF link THEN (H(<<"lnk">>) :> Link(H(<<".docker">>))) ELSE <<>>)

HomeWorlds == {HomeWorld(i, l) : i \in BOOLEAN, l \in BOOLEAN}

\* two hints databases
HintsDbs ==
    {("docker" :> HintsEntry(Some("com.docker.docker"),
                             <<<<".Docker", "config.json">>, <<".docker", "/">>>>,
                             <<>>, Some("cask"), None))
       @@ ("empty" :> HintsEntry(None, <<>>, <<>>, None, Some("nothing to back up"))),
     ("docker" :> HintsEntry(None,
                             <<<<".docker", "config.json">>, <<"lnk", "config.json">>,
                               <<".whale">>>>,
                             <<<<"docker">>>>, None, None))}

App(name, bundle_id) == [name |-> name, bundle_id |-> bundle_id]
Installed ==
    <<App("Docker", Some("com.docker.docker")), App("Whale", Some("com.docker.docker")),
      App("Tool", None), App("Empty", None), App("Apple Notes", Some("com.apple.Notes"))>>
\* the applications the two functions are called on directly
Apps == {app \in Range(Installed) : ~IsSystemApp(app)}

\* the lists of at most MaxApps of the installed applications, in their order
AppLists ==
    {[k \in 1..Len(q) |-> Installed[q[k]]] :
        q \in {q \in SeqsUpTo(1..Len(Installed), MaxApps) :
                  \A i, j \in 1..Len(q) : i < j => q[i] < q[j]}}

LlmResult(configuration_files, xdg_configuration_files, confidence, install_method) ==
    [configuration_files |-> configuration_files,
     xdg_configuration_files |-> xdg_configuration_files, confidence |-> confidence,
     install_method |-> install_method, notes |-> None]
LlmResults ==
    {None,
     Some(LlmResult(<<<<".docker", "config.json">>>>, <<>>, "medium", Some("dmg"))),
     Some(LlmResult(<<<<".Tool", "/">>, <<".tool">>>>, <<<<"tool">>>>, "high", None)),
     Some(LlmResult(<<<<"lnk">>, <<".gone">>>>, <<>>, "low", None))}

LlmNames == {"docker", "Tool", "Empty"}

InitDiscovery ==
    /\ fs \in HomeWorlds
    /\ docs \in {[config |-> "loaded", hints_db |-> db] : db \in HintsDbs}
    /\ call = [op |-> "none", llm_calls |-> 0]
    /\ results = <<>>
    /\ p_results = <<>>
    /\ p_undiscovered = <<>>

Returned_(op, app_name, with_hints, with_conventions, llm_result, ret) ==
    [op |-> op, app |-> app_name, with_hints |-> with_hints,
     with_conventions |-> with_conventions, llm_result |-> llm_result,
     ret |-> ret, llm_calls |-> call.llm_calls + (IF op = "add_llm_result" THEN 1 ELSE 0)]

\* the two functions called on their own
MergeDiscoveryResults(app, with_hints, with_conventions, llm_result) ==
    /\ call' = Returned_("merge_discovery_results", app.name, with_hints, with_conventions,
                   llm_result,
                   Some(merge_discovery_results(fs, docs.config,
                            IF with_hints
                            THEN get_app_settings(docs.hints_db, app.name, app.bundle_id)
                            ELSE None,
                            IF with_conventions
                            THEN Some(discover_from_conventions(fs, app.name, app.bundle_id))
                            ELSE None,
                            llm_result, app.name, app.bundle_id)))
    /\ UNCHANGED <<fs, docs, results, p_results, p_undiscovered>>

DiscoverApp(app) ==
    /\ call' = Returned_("discover_app", app.name, TRUE, TRUE, None,
                   Some(discover_app(fs, docs.config, app.name, app.bundle_id,
                                     docs.hints_db)))
    /\ UNCHANGED <<fs, docs, results, p_results, p_undiscovered>>

\* DiscoveryPipeline.discover_all
DiscoverAll(apps) ==
    /\ LET d == discover_all_apps(fs, docs.config, apps, docs.hints_db) IN
       /\ p_results' = d.discovered
       /\ p_undiscovered' = d.undiscovered
    /\ call' = Returned_("discover_all", "", TRUE, TRUE, None, None)
    /\ UNCHANGED <<fs, docs, results>>

\* the first result whose name matches case-insensitively, 0 when none
MatchIndex(app_name) ==
    FirstIndex(p_results, LAMBDA r : LowerName(r.app_name) = LowerName(app_name))

\* DiscoveryPipeline.add_llm_result
AddLlmResult(app_name, llm_result) ==
    /\ LET i == MatchIndex(app_name) IN
       IF i = 0
       THEN /\ call' = Returned_("add_llm_result", app_name, FALSE, FALSE, llm_result, None)
            /\ UNCHANGED p_results
       ELSE \E updated \in add_llm_result(fs, docs.config, p_results[i], llm_result) :
                /\ p_results' = [p_results EXCEPT ![i] = updated]
                /\ call' = Returned_("add_llm_result", app_name, FALSE, FALSE, llm_result,
                                     Some(updated))
    /\ UNCHANGED <<fs, docs, results, p_undiscovered>>

MergeCall ==
    /\ call.op = "none"
    /\ \E app \in Apps, with_hints \in BOOLEAN, with_conventions \in BOOLEAN,
          llm_result \in LlmResults :
           MergeDiscoveryResults(app, with_hints, with_conventions, llm_result)

DiscoverAppCall == call.op = "none" /\ \E app \in Apps : DiscoverApp(app)

DiscoverAllCall == call.op = "none" /\ \E apps \in AppLists : DiscoverAll(apps)

AddLlmResultCall ==
    /\ call.op \in {"discover_all", "add_llm_result"}
    /\ call.llm_calls < MaxLlmCalls
    /\ \E app_name \in LlmNames, llm_result \in LlmResults :
           AddLlmResult(app_name, llm_result)

NextDiscovery == MergeCall \/ DiscoverAppCall \/ DiscoverAllCall \/ AddLlmResultCall

SpecDiscovery == InitDiscovery /\ [][NextDiscovery]_vars

(***************************************************************************)
(* Claims C8 to C10 on SpecDiscovery.                                      *)
(***************************************************************************)
\* every DiscoveryResult the last call returned or the pipeline holds
Produced ==
    Range(p_results) \cup (IF call.op # "none" /\ call.ret # None THEN {call.ret[1]} ELSE {})

\* C8: in every DiscoveryResult reachable through the discovery pipeline
\* (returned by merge_discovery_results, discover_app, discover_all or
\* add_llm_result), found_in_hints implies that needs_llm_discovery is false,
\* also for an application matched in hints whose entry declares no paths.
\* discover_all_apps breaks it: it sets needs_llm_discovery on every result
\* without settings, found in hints or not.
C8_AsStated == \A r \in Produced : r.found_in_hints => ~r.needs_llm_discovery

\* str(path.resolve()).lower() of a tier path
TierKey(path) == _normalize_path_for_dedup(fs, path)
DuplicateFree(paths) ==
    \A i, j \in 1..Len(paths) : i # j => TierKey(paths[i]) # TierKey(paths[j])
Disjoint(a, b) ==
    \A i \in 1..Len(a), j \in 1..Len(b) : TierKey(a[i]) # TierKey(b[j])

\* C9: in every DiscoveryResult produced by merge_discovery_results the tier
\* lists hints_paths, conventions_paths and llm_paths are pairwise disjoint
\* and each is duplicate-free, two paths being the same when their resolved
\* absolute forms are equal after lower-casing.
C9_TiersDisjointAndDuplicateFree ==
    \A r \in Produced :
        /\ DuplicateFree(r.hints_paths)
        /\ DuplicateFree(r.conventions_paths)
        /\ DuplicateFree(r.llm_paths)
        /\ Disjoint(r.hints_paths, r.conventions_paths)
        /\ Disjoint(r.hints_paths, r.llm_paths)
        /\ Disjoint(r.conventions_paths, r.llm_paths)

\* merge_discovery_results returned a result with a hints tier and a
\* conventions tier, and kept a path that conventions found out of the
\* conventions tier because the hints tier holds its location
C9_Witness ==
    /\ call.op = "merge_discovery_results"
    /\ call.ret # None
    /\ LET r == call.ret[1] IN
       /\ r.hints_paths # <<>>
       /\ r.conventions_paths # <<>>
       /\ \E app \in Apps :
             /\ app.name = call.app
             /\ \E p \in Range(discover_from_conventions(fs, app.name, app.bundle_id)
                                  .configuration_files) :
                   /\ Resolve(fs, Under_(home, p)) \notin Range(r.conventions_paths)
                   /\ TierKey(Under_(home, p)) \in {TierKey(q) : q \in Range(r.hints_paths)}

\* path.rstrip('/').lower() is different for any two entries of the list
NoCaseDuplicates(paths) ==
    \A i, j \in 1..Len(paths) :
        i # j => _normalize_config_path(paths[i]) # _normalize_config_path(paths[j])

\* C10: in every DiscoveryResult held by the pipeline, after the initial
\* merge and after any number of add_llm_result calls, configuration_files and
\* xdg_configuration_files hold no two entries that are equal after stripping
\* trailing slashes and lower-casing.  add_llm_result breaks it: it joins the
\* old and the new list with list(set(...)), which compares the strings as
\* they are.
C10_AsStated ==
    \A r \in Range(p_results) :
        /\ NoCaseDuplicates(r.configuration_files)
        /\ NoCaseDuplicates(r.xdg_configuration_files)

(***************************************************************************)
(* Claims C11 to C14 on SpecDiscovery: what merge_discovery_results was    *)
(* given, read back from the call.                                         *)
(***************************************************************************)
CalledApp == CHOOSE app \in Apps : app.name = call.app
GivenHints ==
    IF call.with_hints
    THEN get_app_settings(docs.hints_db, CalledApp.name, CalledApp.bundle_id)
    ELSE None
GivenConventions ==
    IF call.with_conventions
    THEN Some(discover_from_conventions(fs, CalledApp.name, CalledApp.bundle_id))
    ELSE None
Merged == call.op \in {"merge_discovery_results", "discover_app"}

\* the paths a tier result declares that exist, under the base of their list
Existing(result) ==
    {p \in {Under_(home, q) : q \in Range(Get(result, "configuration_files", <<>>))}
           \cup {Under_(xdg_config_home, q) :
                    q \in Range(Get(result, "xdg_configuration_files", <<>>))} :
        PathExists(fs, p)}
KeysOf(paths) == {TierKey(p) : p \in paths}
\* is_config_file for a file, is_config_directory for a directory
PassesConfigFilter(p) ==
    LET resolved == Resolve(fs, p)
        cf == ConfigFilter(docs.config)
    IN  IF IsFile(fs, resolved) THEN is_config_file(fs, cf, resolved, TRUE).valid
        ELSE IF IsDir(fs, resolved) THEN is_config_directory(fs, cf, resolved).valid
        ELSE TRUE

\* C11: given a hints result and a conventions result, hints_paths is
\* exactly the hints-declared paths that exist (ConfigFilter not consulted),
\* conventions_paths exactly the conventions-declared paths that exist, are
\* not in the hints set and pass ConfigFilter, found_in_hints is true and
\* needs_llm_discovery false.
C11_TiersHoldExactlyTheirPaths ==
    (Merged /\ GivenHints # None /\ GivenConventions # None) =>
        LET r == call.ret[1] IN
        /\ Range(r.hints_paths) \subseteq {Resolve(fs, p) : p \in Existing(GivenHints)}
        /\ KeysOf(Range(r.hints_paths)) = KeysOf(Existing(GivenHints))
        /\ Range(r.conventions_paths)
              \subseteq {Resolve(fs, p) : p \in Existing(GivenConventions)}
        /\ KeysOf(Range(r.conventions_paths))
              = KeysOf({p \in Existing(GivenConventions) :
                           /\ TierKey(p) \notin KeysOf(Existing(GivenHints))
                           /\ PassesConfigFilter(p)})
        /\ r.found_in_hints
        /\ ~r.needs_llm_discovery

\* both tiers hold a path, and conventions found a path outside the hints
\* set that ConfigFilter rejects
C11_Witness ==
    /\ call.op = "merge_discovery_results"
    /\ GivenHints # None /\ GivenConventions # None
    /\ call.ret[1].hints_paths # <<>>
    /\ call.ret[1].conventions_paths # <<>>
    /\ \E p \in Existing(GivenConventions) :
          TierKey(p) \notin KeysOf(Existing(GivenHints)) /\ ~PassesConfigFilter(p)

\* the entries of the generic lists that a tier result declares
DeclaredBy(result, list) == {RStrip(p) : p \in Range(Get(result, list, <<>>))}

\* C12: for an application matched in hints, an LLM result never adds a
\* path to llm_paths nor a declared path to the generic lists, whether it is
\* passed to merge_discovery_results with the hints result or supplied later
\* through add_llm_result.  add_llm_result breaks it: it merges the LLM
\* result with hints_result=None, so the LLM tier runs for a result that was
\* found in hints.
C12_AsStated ==
    /\ [](Merged /\ GivenHints # None /\ call.llm_result # None =>
            LET r == call.ret[1] IN
            /\ r.llm_paths = <<>>
            /\ \A list \in {"configuration_files", "xdg_configuration_files"} :
                  Range(r[list]) \subseteq DeclaredBy(GivenHints, list)
                                           \cup DeclaredBy(GivenConventions, list))
    /\ [][(/\ call'.op = "add_llm_result"
           /\ call'.ret # None
           /\ p_results[MatchIndex(call'.app)].found_in_hints) =>
            LET old == p_results[MatchIndex(call'.app)]
                new == call'.ret[1]
            IN  /\ new.llm_paths = <<>>
                /\ Range(new.configuration_files) \subseteq Range(old.configuration_files)
                /\ Range(new.xdg_configuration_files)
                      \subseteq Range(old.xdg_configuration_files)]_vars

\* a tier result that declares at least one path
Contributes(result) ==
    DeclaredBy(result, "configuration_files") \cup DeclaredBy(result, "xdg_configuration_files")
        # {}

\* C13: source and confidence of a merged result are those of the highest
\* tier that contributed a path (hints, then conventions, then llm), and
\* source is 'unknown' when no tier contributed one, also when a conventions
\* result that found nothing is supplied.  A matched hints entry counts as
\* contributing here, with paths or not.  merge_discovery_results breaks it:
\* it names the highest tier whose result was supplied, with paths or not.
C13_AsStated ==
    Merged =>
        LET r == call.ret[1] IN
        IF GivenHints # None THEN r.source = "hints" /\ r.confidence = "high"
        ELSE IF Contributes(GivenConventions)
        THEN r.source = "conventions" /\ r.confidence = GivenConventions[1].confidence
        ELSE IF GivenHints = None /\ Contributes(call.llm_result)
        THEN r.source = "llm" /\ r.confidence = call.llm_result[1].confidence
        ELSE r.source = "unknown"

\* C14: for an application not found in hints, needs_llm_discovery is true
\* exactly when conventions_paths and llm_paths are both empty; declared
\* paths that do not exist or that ConfigFilter rejected do not make it
\* false.  merge_discovery_results breaks it: has_settings() also counts the
\* generic lists, which hold every declared path.
C14_AsStated ==
    (Merged /\ GivenHints = None) =>
        LET r == call.ret[1] IN
        r.needs_llm_discovery <=> (r.conventions_paths = <<>> /\ r.llm_paths = <<>>)


(***************************************************************************)
(* Claims C15 to C18 on SpecBackup: the order of the skip conditions, the  *)
(* status of a directory backup and the pruning of the walk.               *)
(***************************************************************************)
\* the four skip conditions of a backup_file or backup_directory call, on the
\* filesystem the call found
DestRejected(f, c) == safe_join(f, output_dir, c.relative_dest).raised
SourceMissing(f, c) == ~PathExists(f, c.source)
TierRejects(f, c) ==
    /\ c.discovery_tier \in {"conventions", "llm"}
    /\ IF c.op = "backup_file"
       THEN ~is_config_file(f, ConfigFilter(docs.config), c.source, c.env.statOK).valid
       ELSE ~is_config_directory(f, ConfigFilter(docs.config), c.source).valid
TierReason(f, c) ==
    IF c.op = "backup_file"
    THEN is_config_file(f, ConfigFilter(docs.config), c.source, c.env.statOK).reason
    ELSE is_config_directory(f, ConfigFilter(docs.config), c.source).reason
PolicyRejects(f, c) == can_backup(f, SecurityPatterns, c.source, c.env.statOK).excluded
MissingReason(c) ==
    IF c.op = "backup_file" THEN "Source file does not exist"
    ELSE "Source directory does not exist"

\* C15: in backup_file and backup_directory the earliest of the conditions
\* (destination rejected by the path validation, source missing, tier
\* 'conventions' or 'llm' and ConfigFilter rejects, can_backup rejects) that
\* holds decides the result and its reason, whatever later ones hold too, and
\* with tier 'hints' or 'unknown' nothing is ever reported as filtered by
\* ConfigFilter.
C15_EarliestSkipConditionWins ==
    [][call'.op \in {"backup_file", "backup_directory"} =>
        LET c == call'
            r == c.ret
        IN  /\ DestRejected(fs, c) => r.status = "error" /\ r.dest = <<>> /\ fs' = fs
            /\ (~DestRejected(fs, c) /\ SourceMissing(fs, c))
                  => /\ r.status = "skipped" /\ ~r.tier_filtered
                     /\ r.reason = MissingReason(c)
            /\ (~DestRejected(fs, c) /\ ~SourceMissing(fs, c) /\ TierRejects(fs, c))
                  => /\ r.status = "skipped" /\ r.tier_filtered
                     /\ r.reason = TierReason(fs, c)
            /\ (/\ ~DestRejected(fs, c) /\ ~SourceMissing(fs, c)
                /\ ~TierRejects(fs, c) /\ PolicyRejects(fs, c))
                  => /\ r.status = "skipped" /\ ~r.tier_filtered
                     /\ r.reason = can_backup(fs, SecurityPatterns, c.source, c.env.statOK).reason.rule
            /\ (/\ ~DestRejected(fs, c) /\ ~SourceMissing(fs, c)
                /\ ~TierRejects(fs, c) /\ ~PolicyRejects(fs, c))
                  => r.status # "skipped"
            /\ c.discovery_tier \in {"hints", "unknown"}
                  => ~r.tier_filtered /\ r.files_tier_filtered = 0]_vars

\* a file that both ConfigFilter and the exclusion policy reject, offered with
\* tier 'llm' and an accepted destination: the skip is the tier filter's
C15_Witness ==
    /\ call.op = "backup_file"
    /\ call.discovery_tier = "llm"
    /\ ~DestRejected(fs, call) /\ ~SourceMissing(fs, call)
    /\ TierRejects(fs, call) /\ PolicyRejects(fs, call)
    /\ call.ret.status = "skipped" /\ call.ret.tier_filtered

\* the files of the walk that reach the processing step of backup_directory
Todo(f, c) ==
    LET useCF == UsesConfigFilter(c.discovery_tier)
        cf == ConfigFilter(docs.config)
        files == UNION {KidsOf(f, d, "file") : d \in WalkDirs(f, useCF, cf, c.exclude_patterns, c.source)}
    IN  {x \in files : FileClass(f, useCF, cf, c.exclude_patterns, x, c.env) = "process"}

\* how many of the files processed one after the other failed with a true
\* error (mkdir, read, copy, write or plist conversion), recorded or not
RECURSIVE ChildFailures(_, _, _, _, _, _)
ChildFailures(f, todo, source, dest, should_filter, env) ==
    IF todo = {} THEN 0
    ELSE LET src_file == CHOOSE x \in todo : TRUE
             dst_file == dest \o SubSeq(src_file, Len(source) + 1, Len(src_file))
             o == IF MkdirFails(f, Parent(dst_file))
                  THEN Outcome(TRUE, TRUE, "mkdir", f)
                  ELSE ProcessOne(Mkdir(f, Parent(dst_file)), src_file, dst_file,
                                  should_filter, env)
         IN  (IF o.failed THEN 1 ELSE 0)
             + ChildFailures(o.fs, todo \ {src_file}, source, dest, should_filter, env)

\* the call passed the four skip conditions and walked the directory
Walked(f, c) ==
    /\ c.op = "backup_directory"
    /\ ~DestRejected(f, c) /\ ~SourceMissing(f, c)
    /\ ~TierRejects(f, c) /\ ~PolicyRejects(f, c)

\* C16 as stated: a directory backup that walked its source ends 'partial'
\* when the processing of at least one child file failed with a true error
\* and 'success' otherwise, with and without secret filtering.
C16_AsStated ==
    [][Walked(fs, call') =>
        LET c == call'
            failures == ChildFailures(fs, Todo(fs, c), c.source, c.ret.dest,
                                      ShouldFilter(c.filter_secrets), c.env)
        IN  c.ret.status = IF failures > 0 THEN "partial" ELSE "success"]_vars

\* C16, the part that holds: with secret filtering the status is 'partial'
\* exactly when a child failed, and files skipped by the exclusion policy,
\* ConfigFilter or an exclude glob never make the status 'partial'.
C16_FilteringPart ==
    [][Walked(fs, call') =>
        LET c == call'
            failures == ChildFailures(fs, Todo(fs, c), c.source, c.ret.dest,
                                      ShouldFilter(c.filter_secrets), c.env)
        IN  /\ ShouldFilter(c.filter_secrets)
                  => c.ret.status = IF failures > 0 THEN "partial" ELSE "success"
            /\ failures = 0 => c.ret.status = "success"]_vars

\* what a call wrote: the entries of the filesystem that are new or changed
Written(before, after) ==
    {p \in DOMAIN after : p \notin DOMAIN before \/ after[p] # before[p]}

\* the environment in which only os.chmod fails
ChmodFails == Env(TRUE, TRUE, TRUE, TRUE, FALSE)

\* C17 as stated: when backup_file wrote the content of its item without any
\* error but os.chmod on the destination fails, the status of the item is
\* 'partial'.
C17_AsStated ==
    [][(/\ call'.op = "backup_file"
        /\ call'.env = ChmodFails
        /\ call'.ret.dest # <<>>
        /\ call'.ret.dest \in Written(fs, fs')
        /\ call'.ret.errors = 0)
       => call'.ret.status = "partial"]_vars

\* C17, what the code guarantees instead: the failure of os.chmod never turns
\* a written item into an 'error', and the call answers exactly as it does
\* when os.chmod succeeds.
C17_ChmodFailureIsSilent ==
    [][(call'.op = "backup_file" /\ call'.env = ChmodFails)
       => call'.ret = backup_file(fs, docs.config, call'.source, call'.relative_dest,
                                  call'.filter_secrets, call'.discovery_tier, AllOK).ret]_vars

\* the subdirectories, at any depth under the source, that one of the three
\* prunings of the walk rejects, and everything beneath them
RejectedDirs(f, c) ==
    {d \in DOMAIN f :
        /\ f[d].kind = "dir" /\ IsPrefix(c.source, d) /\ d # c.source
        /\ \/ _should_skip_dir(d)
           \/ MatchesExcludePattern(Name(d), c.exclude_patterns)
           \/ /\ c.discovery_tier \in {"conventions", "llm"}
              /\ ~should_recurse_directory(f, ConfigFilter(docs.config), d)}
Beneath(f, c) == {x \in DOMAIN f : \E d \in RejectedDirs(f, c) : IsPrefix(d, x)}

\* where the walk puts the copy of a path under the source
DestOf(c, x) == c.ret.dest \o SubSeq(x, Len(c.source) + 1, Len(x))

\* the entries a call created or whose kind, size or content it changed
Copied(before, after) ==
    {p \in DOMAIN after :
        \/ p \notin DOMAIN before
        \/ after[p].kind # before[p].kind
        \/ after[p].size # before[p].size
        \/ after[p].content # before[p].content}

\* C18: in a backup_directory call that walks its source, nothing beneath a
\* subdirectory rejected by the exclusion policy's directory check, by an
\* exclude glob or (tiers 'conventions' and 'llm') by ConfigFilter gets a copy
\* in the destination tree, and no such file is among the files the call
\* counted as processed, skipped or tier-filtered.
C18_RejectedSubtreesArePruned ==
    [][Walked(fs, call') =>
        LET c == call'
            outside == {x \in DOMAIN fs : /\ fs[x].kind = "file"
                                          /\ IsPrefix(c.source, x)
                                          /\ x \notin Beneath(fs, c)}
        IN  /\ \A x \in Beneath(fs, c) : DestOf(c, x) \notin Copied(fs, fs')
            /\ c.ret.files_processed + c.ret.files_skipped + c.ret.files_tier_filtered
                  <= Cardinality(outside)]_vars

\* the directory ~/App from hints with the exclude glob 'Cache*': CachedData
\* is pruned by the glob alone, its file s.json, which backup_file copies from
\* hints, has no copy, while conf.json has one
C18_Witness ==
    /\ call.op = "backup_directory"
    /\ call.source = P(<<"h", "App">>)
    /\ call.discovery_tier = "hints"
    /\ call.exclude_patterns # <<>>
    /\ call.env = AllOK
    /\ call.ret.status = "success"
    /\ P(<<"h", "App", "CachedData">>) \in RejectedDirs(fs, call)
    /\ ~_should_skip_dir(P(<<"h", "App", "CachedData">>))
    /\ ~can_backup(fs, SecurityPatterns, P(<<"h", "App", "CachedData", "s.json">>), TRUE).excluded
    /\ ~Exists(fs, DestOf(call, P(<<"h", "App", "CachedData", "s.json">>)))
    /\ Exists(fs, DestOf(call, P(<<"h", "App", "conf.json">>)))

(***************************************************************************)
(* SpecRedaction: the backup phase of run_inventory, item after item on    *)
(* one ConfigBackup, when the redaction-rule document                      *)
(* (security-patterns.yaml) is well formed, cannot be parsed, or holds a   *)
(* rule whose regular expression does not compile.                         *)
(***************************************************************************)
MaxItems == 2
SecurityDocs == {"loaded", "unparsable", "invalid_regex"}

\* load_security_patterns: yaml.safe_load raises yaml.YAMLError on a document
\* that cannot be parsed; nothing catches it here
load_security_patterns(secdoc) ==
    IF secdoc = "unparsable" THEN [raised |-> TRUE, patterns |-> <<>>]
    ELSE [raised |-> FALSE, patterns |-> SecurityPatterns]

\* SecretFilter.compiled_patterns: a rule whose regex does not compile is
\* reported on stderr and left out ("Log but don't fail on invalid regex");
\* TRUE when every rule of the document is applied
compiled_patterns(secdoc) == secdoc # "invalid_regex"

\* the content a filtered write leaves when a rule was left out
FilteredBy(secdoc, content) ==
    IF compiled_patterns(secdoc) THEN content
    ELSE IF content = "redacted" THEN "redacted_rule_dropped"
    ELSE IF content = "xml_redacted" THEN "xml_redacted_rule_dropped"
    ELSE content

\* the call gets as far as "self.security.can_backup(source)", the first use
\* of the patterns (SecurityManager.can_backup reads
\* self.exclusions.max_file_size_mb, which loads the document)
ReachesCanBackup(f, doc, source, relative_dest, discovery_tier, env) ==
    /\ ~JoinOutput(f, relative_dest).raised
    /\ PathExists(f, source)
    /\ ~(UsesConfigFilter(discovery_tier)
         /\ ~is_config_file(f, ConfigFilter(doc), source, env.statOK).valid)

\* backup_file on a ConfigBackup whose SecurityManager reads the document
\* secdoc: the YAMLError of the lazy load leaves backup_file from
\* can_backup, outside its try block, with nothing written or recorded
backup_file_with(secdoc, f, doc, source, relative_dest, filter_secrets, discovery_tier, env) ==
    LET d == backup_file(f, doc, source, relative_dest, filter_secrets, discovery_tier, env)
    IN  IF /\ load_security_patterns(secdoc).raised
           /\ ReachesCanBackup(f, doc, source, relative_dest, discovery_tier, env)
        THEN Done([d.ret EXCEPT !.status = "raised", !.reason = "YAMLError"], f, FALSE)
        ELSE Done(d.ret,
                  [q \in DOMAIN d.fs |->
                      IF q \in DOMAIN f /\ d.fs[q] = f[q] THEN d.fs[q]
                      ELSE [d.fs[q] EXCEPT !.content = FilteredBy(secdoc, @)]],
                  d.recorded)

RedactionSources ==
    {P(<<"h", "App", "conf.json">>), P(<<"h", "App", "prefs.plist">>),
     P(<<"h", "App", "gone.json">>)}
RedactionDests == {<<"a.json">>, <<"cfg", "a.json">>, <<"..", "..", "etc", "passwd">>}

InitRedaction ==
    /\ fs \in {w \in Worlds : w[P(<<"h", "App", "conf.json">>)].size = 100
                              /\ w[P(<<"h", "App", "Logs", "big.log">>)].size > 100
                              /\ P(<<"out", "in">>) \notin DOMAIN w
                              /\ P(<<"out", "lnk">>) \in DOMAIN w}
    /\ docs \in {[config |-> "loaded", security |-> s] : s \in SecurityDocs}
    /\ call = NoCall
    /\ results = <<>>
    /\ p_results = <<>>
    /\ p_undiscovered = <<>>

\* run_inventory wraps the whole backup phase in one "except Exception": the
\* first exception that leaves a backup call ends the phase
Aborted == call.op # "none" /\ call.ret.status = "raised"

BackupItem ==
    /\ ~Aborted
    /\ Len(results) < MaxItems
    /\ \E source \in RedactionSources, relative_dest \in RedactionDests,
          discovery_tier \in {"hints", "conventions"} :
           Called("backup_file", source, relative_dest, "default", discovery_tier, <<>>, AllOK,
                  backup_file_with(docs.security, fs, docs.config, source, relative_dest,
                                   "default", discovery_tier, AllOK))

NextRedaction == BackupItem

SpecRedaction == InitRedaction /\ [][NextRedaction]_vars

C19_UnparsableAborts ==
    [][docs.security = "unparsable"
         => /\ fs' = fs
            /\ call'.ret.status \in {"error", "skipped", "raised"}
            /\ ~Aborted]_vars

\* the failure itself: an existing file offered while the document cannot be
\* parsed, after an earlier item that was skipped
C19_AbortWitness ==
    /\ docs.security = "unparsable"
    /\ Aborted
    /\ IsFile(fs, call.source)
    /\ Len(results) = 1 /\ results[1].status = "skipped"

(***************************************************************************)
(* Claim C20 on SpecBackup: the inclusion-rule document of ConfigFilter.   *)
(***************************************************************************)
\* C20 as stated: a ConfigFilter built from a missing inclusion-rule document
\* and one built from a malformed document hold the same rule set and
\* classify the source of every backup_file call identically, so the call
\* answers the same with either.
C20_AsStated ==
    [][(call'.op = "backup_file" /\ docs.config \in {"missing", "malformed"}) =>
        LET c == call' IN
        /\ ConfigFilter("missing") = ConfigFilter("malformed")
        /\ is_config_file(fs, ConfigFilter("missing"), c.source, c.env.statOK)
             = is_config_file(fs, ConfigFilter("malformed"), c.source, c.env.statOK)
        /\ backup_file(fs, "missing", c.source, c.relative_dest, c.filter_secrets,
                       c.discovery_tier, c.env).ret
             = backup_file(fs, "malformed", c.source, c.relative_dest, c.filter_secrets,
                           c.discovery_tier, c.env).ret]_vars

(***************************************************************************)
(* Claim C21 on SpecPolicy: a failed stat.                                 *)
(***************************************************************************)
\* the checks of can_backup other than the size checks
OtherChecks == {StatedOrder[i] : i \in 1..Len(StatedOrder)} \ {"size"}

\* C21 as stated: when the size of a file cannot be read and the path fails
\* no other check, can_backup allows the path.
C21_AsStated ==
    (/\ call.op = "can_backup"
     /\ ~call.statOK
     /\ IsFile(fs, call.path)
     /\ \A c \in OtherChecks : ~FailsCheck(c, fs, call.path, TRUE))
    => ~call.ret.excluded

\* C21, the part that holds: in ExclusionChecker.should_exclude_file a failed
\* stat skips the size check only, the other rules deciding as before.
C21_ExclusionCheckerSkipsOnlySize ==
    (call.op = "can_backup" /\ IsFile(fs, call.path))
    => LET v == should_exclude_file(fs, SecurityPatterns, call.path, FALSE)
           w == should_exclude_file(fs, SecurityPatterns, call.path, TRUE)
       IN  /\ v.excluded => v.reason.rule # "size"
           /\ (w.excluded /\ w.reason.rule # "size") => v = w
           /\ ~v.excluded <=> (~w.excluded \/ w.reason.rule = "size")

(***************************************************************************)
(* SpecConfigFilter: ConfigFilter.is_config_file asked about any path of a *)
(* home directory, with each inclusion-rule document.                      *)
(***************************************************************************)
\* dotfiles and a file with a safe name, next to the application's tree
DotTree ==
    (P(<<"h", ".zshrc">>) :> File(100)) @@ (P(<<"h", ".hidden">>) :> File(100))
    @@ (P(<<"h", "App", "config">>) :> File(100))
    @@ (P(<<"h", "lnk">>) :> Link(P(<<"h", "App", "conf.json">>)))

ConfigFilterPaths ==
    Sources \cup {P(<<"h", ".zshrc">>), P(<<"h", ".hidden">>), P(<<"h", "App", "config">>),
                  P(<<"h", "lnk">>)}

InitConfigFilter ==
    /\ fs \in {DotTree @@ w : w \in Worlds}
    /\ docs \in {[config |-> c] : c \in {"loaded", "missing", "malformed"}}
    /\ call = NoCall
    /\ results = <<>>
    /\ p_results = <<>>
    /\ p_undiscovered = <<>>

IsConfigFile(path, statOK) ==
    /\ call' = [op |-> "is_config_file", path |-> path, statOK |-> statOK,
                ret |-> is_config_file(fs, ConfigFilter(docs.config), path, statOK)]
    /\ UNCHANGED <<fs, docs, results, p_results, p_undiscovered>>

NextConfigFilter == \E path \in ConfigFilterPaths, statOK \in BOOLEAN : IsConfigFile(path, statOK)

SpecConfigFilter == InitConfigFilter /\ [][NextConfigFilter]_vars

\* the reject rules of is_config_file that do not need the size, and its
\* accept rules, each as a property of the path alone
HardRejected(f, cf, path) ==
    \/ ~PathExists(f, path) \/ ~IsFile(f, path)
    \/ \E i \in 1..Len(cf.hard_exclude_patterns) : FnMatchPath(path, cf.hard_exclude_patterns[i], FALSE)
    \/ \E i \in 1..Len(path) : LowerName(path[i]) \in excluded_dirs
    \/ LowerName(Suffix(Name(path))) \in cf.hard_exclude_extensions
OverCap(f, cf, path) == SizeOf(f, path) > cf.max_file_size
KnownSafe(cf, path) ==
    \/ LowerName(Name(path)) \in cf.safe_filenames
    \/ LowerName(Suffix(Name(path))) \in cf.safe_extensions
    \/ /\ StartsWithDot(LowerName(Name(path)))
       /\ \E t \in dotfile_patterns : ContainsText(LowerName(Name(path)), t)

XdgWorld ==
    HomeWorld(FALSE, FALSE)
    @@ (P(<<"x">>) :> Dir) @@ (P(<<"x", "docker">>) :> Dir) @@ (P(<<"x", "tool">>) :> Dir)
    @@ (P(<<"h", "xdg">>) :> Dir) @@ (P(<<"h", "xdg", "docker">>) :> Dir)
    @@ (P(<<"h", "out">>) :> Link(P(<<"x">>)))

XdgEnvs == {None, Some(P(<<"x">>)), Some(P(<<"h", "xdg">>)), Some(P(<<"h", "out">>))}

\* hints.validate_xdg_config_home: the default when the variable is unset,
\* the resolved override when it lies within the home directory,
\* PathSecurityError otherwise
validate_xdg_config_home(f, env) ==
    IF env = None THEN Returned(home \o <<".config">>)
    ELSE LET xdg_path == Resolve(f, env[1]) IN
         IF IsPrefix(home, xdg_path) THEN Returned(xdg_path)
         ELSE Raised("$XDG_CONFIG_HOME must be within home directory")

InitXdg ==
    /\ fs = XdgWorld
    /\ docs \in {[config |-> "loaded", hints_db |-> db, XDG_CONFIG_HOME |-> e] :
                    db \in HintsDbs, e \in XdgEnvs}
    /\ call = [op |-> "none", llm_calls |-> 0]
    /\ results = <<>>
    /\ p_results = <<>>
    /\ p_undiscovered = <<>>

NextXdg == MergeCall \/ DiscoverAppCall

SpecXdg == InitXdg /\ [][NextXdg]_vars

\* the paths of the three tier lists of a result
TierPaths(r) == Range(r.hints_paths) \cup Range(r.conventions_paths) \cup Range(r.llm_paths)

\* the override is set and validate_xdg_config_home rejects it
OverrideOutsideHome == XDG_CONFIG_HOME # None /\ validate_xdg_config_home(fs, XDG_CONFIG_HOME).raised

\* C23 as stated: when XDG_CONFIG_HOME resolves outside the home directory,
\* no path under the override is placed in a tier list of a merged result,
\* the hints tier included.
C23_AsStated ==
    (Merged /\ OverrideOutsideHome)
    => \A p \in TierPaths(call.ret[1]) : ~IsPrefix(Resolve(fs, xdg_config_home), p)

\* C23, what the unused validator would give: with the variable unset or an
\* override inside the home directory every tier path lies in the home
\* directory.
C23_AcceptedOverridesStayInHome ==
    (Merged /\ ~OverrideOutsideHome)
    => \A p \in TierPaths(call.ret[1]) : IsPrefix(home, p)

(***************************************************************************)
(* SpecSummary: several backup calls on one ConfigBackup, each followed by *)
(* get_summary.                                                            *)
(***************************************************************************)
MaxCalls == 2

\* ConfigBackup.get_summary over self.results
CountStatus(rs, status) == Cardinality({i \in 1..Len(rs) : rs[i].status = status})
get_summary(rs) ==
    [total_operations |-> Len(rs),
     success |-> CountStatus(rs, "success"),
     partial |-> CountStatus(rs, "partial"),
     skipped |-> CountStatus(rs, "skipped"),
     errors |-> CountStatus(rs, "error")]

SummarySources ==
    {P(<<"h", "App">>), P(<<"h", "App", "prefs.plist">>), P(<<"h", "App", "gone.json">>)}
SummaryDests == {<<"a.json">>, <<"..", "..", "etc", "passwd">>}
SummaryEnvs == {AllOK, Env(TRUE, TRUE, FALSE, TRUE, TRUE)}

InitSummary ==
    /\ fs \in {w \in Worlds : /\ w[P(<<"h", "App", "conf.json">>)].size = 100
                              /\ w[P(<<"h", "App", "Logs", "big.log">>)].size > 100
                              /\ P(<<"out", "in">>) \notin DOMAIN w
                              /\ P(<<"out", "lnk">>) \in DOMAIN w
                              /\ P(<<"out", "cfg">>) \notin DOMAIN w}
    /\ docs = [config |-> "loaded"]
    /\ call = [op |-> "none", calls |-> 0]
    /\ results = <<>>
    /\ p_results = <<>>
    /\ p_undiscovered = <<>>

\* one call and the summary read after it
Counted(op, source, relative_dest, env, d) ==
    /\ call' = [op |-> op, source |-> source, relative_dest |-> relative_dest, env |-> env,
                ret |-> d.ret, calls |-> call.calls + 1,
                summary |-> get_summary(IF d.recorded THEN Append(results, d.ret)
                                        ELSE results)]
    /\ fs' = d.fs
    /\ results' = IF d.recorded THEN Append(results, d.ret) ELSE results
    /\ UNCHANGED <<docs, p_results, p_undiscovered>>

CountedBackupFile ==
    /\ call.calls < MaxCalls
    /\ \E source \in SummarySources, relative_dest \in SummaryDests, env \in SummaryEnvs :
           Counted("backup_file", source, relative_dest, env,
                   backup_file(fs, docs.config, source, relative_dest, "default", "hints", env))

CountedBackupDirectory ==
    /\ call.calls < MaxCalls
    /\ \E source \in SummarySources, relative_dest \in SummaryDests, env \in SummaryEnvs :
           Counted("backup_directory", source, relative_dest, env,
                   backup_directory(fs, docs.config, source, relative_dest, "default",
                                    "hints", <<>>, env))

CountedBackupPath ==
    /\ call.calls < MaxCalls
    /\ \E source \in SummarySources, relative_dest \in SummaryDests, env \in SummaryEnvs :
           Counted("backup_path", source, relative_dest, env,
                   backup_path(fs, docs.config, source, relative_dest, "default",
                               "hints", <<>>, env))

NextSummary == CountedBackupFile \/ CountedBackupDirectory \/ CountedBackupPath

SpecSummary == InitSummary /\ [][NextSummary]_vars

\* a result or returned dictionary says why: a reason, or an error message
SaysWhy(r) == r.reason # "" \/ r.errors > 0

\* C24 as stated: after any sequence of calls total_operations is the number
\* of calls made and the sum of the four counts, and every skipped or failed
\* result carries a reason or an error message.
C24_AsStated ==
    call.op # "none" =>
        /\ call.summary.total_operations = call.calls
        /\ call.summary.total_operations
             = call.summary.success + call.summary.partial
               + call.summary.skipped + call.summary.errors
        /\ \A i \in 1..Len(results) :
               results[i].status \in {"skipped", "error"} => SaysWhy(results[i])

\* C24, the part that holds: the summary counts exactly the calls that got
\* past the validation of the destination, its total is the sum of the four
\* counts, and every skipped or failed call, the rejected ones included,
\* says why.
C24_SummaryCountsRecordedCalls ==
    call.op # "none" =>
        /\ call.summary.total_operations = Len(results)
        /\ call.summary.total_operations <= call.calls
        /\ call.summary.total_operations
             = call.summary.success + call.summary.partial
               + call.summary.skipped + call.summary.errors
        /\ \A i \in 1..Len(results) :
               results[i].status \in {"skipped", "error"} => SaysWhy(results[i])
        /\ call.ret.status \in {"skipped", "error"} => SaysWhy(call.ret)

(***************************************************************************)
(* Claim C25 on SpecFilter: the truncated value of a Change.               *)
(***************************************************************************)
\* C25 (as amended): the 'original' of a Change is the first 8 characters,
\* "..." and the last 4 characters of the span for a span of more than 20
\* characters, the first 4 characters and "..." for a span of 9 to 20
\* characters, and the placeholder "..." alone for a span of at most 8
\* characters; for every span of more than 8 characters it is strictly
\* shorter than the span.
C25_TruncationByLength ==
    call.op = "filter_content" =>
        /\ Len(call.ret.changes) = Len(Met)
        /\ \A i \in 1..Len(Met) :
               LET span == Met[i].span
                   original == call.ret.changes[i].original
               IN  /\ Len(span) > 20 =>
                          original = SubSeq(span, 1, 8) \o Dots
                                     \o SubSeq(span, Len(span) - 3, Len(span))
                   /\ (Len(span) > 8 /\ Len(span) <= 20) =>
                          original = SubSeq(span, 1, 4) \o Dots
                   /\ Len(span) <= 8 => original = Dots
                   /\ Len(span) > 8 => Len(original) < Len(span)

\* a span of 9 to 20 characters recorded with its first four characters
C25_Witness ==
    /\ call.op = "filter_content"
    /\ \E i \in 1..Len(Met) :
           /\ Len(Met[i].span) > 8 /\ Len(Met[i].span) <= 20
           /\ call.ret.changes[i].original = SubSeq(Met[i].span, 1, 4) \o Dots

\* C25 as stated: every span that is not long enough for the first-8 and
\* last-4 form is recorded as the generic placeholder.
C25_AsStated ==
    call.op = "filter_content" =>
        \A i \in 1..Len(Met) :
            i <= Len(call.ret.changes) =>
                LET span == Met[i].span
                    original == call.ret.changes[i].original
                IN  IF Len(span) > 20
                    THEN /\ original = SubSeq(span, 1, 8) \o Dots
                                       \o SubSeq(span, Len(span) - 3, Len(span))
                         /\ Len(original) < Len(span)
                    ELSE original = Dots

(***************************************************************************)
(* Claim C26 on SpecBackup: what a filtering call leaves at a destination. *)
(***************************************************************************)
\* the contents a destination holds when it was not redacted: the raw copy,
\* the binary property list and the converted but unfiltered text
Unredacted == {"raw", "bplist", "xml"}

\* C26 as stated: when filtering is enabled, no file that a backup call
\* writes holds unredacted content, also when the item ends in 'error': a
\* failed conversion of a binary property list, or a failed read, filter or
\* rewrite after the conversion, leaves neither the raw nor the converted but
\* unfiltered file in the backup tree.
C26_AsStated ==
    [][(call'.op \in BackupOps /\ ShouldFilter(call'.filter_secrets))
       => \A p \in Written(fs, fs') :
              fs'[p].kind = "file" => fs'[p].content \notin Unredacted]_vars

\* C26, the part that holds: a filtering call that answers 'success' for a
\* single file leaves redacted content at its destination.
C26_SuccessIsRedacted ==
    [][(/\ call'.op = "backup_file"
        /\ ShouldFilter(call'.filter_secrets)
        /\ call'.ret.status = "success")
       => \A p \in Written(fs, fs') :
              fs'[p].kind = "file" => fs'[p].content \notin Unredacted]_vars

(***************************************************************************)
(* Claim C27 on SpecDiscovery: what add_llm_result leaves as it was.       *)
(***************************************************************************)
\* the fields of a result that add_llm_result is said to leave alone
KeptFields ==
    {"hints_paths", "conventions_paths", "found_in_hints", "canonical_key",
     "exclude_files", "bundle_id", "source"}

\* C27 as stated: add_llm_result only adds assisted-tier data to the result
\* of the named application: its hints_paths, conventions_paths,
\* found_in_hints, canonical_key, exclude_files, bundle_id and source are the
\* same after the call as before it, and the results of all other
\* applications are unchanged.
C27_AsStated ==
    [][(call'.op = "add_llm_result" /\ call'.ret # None) =>
          LET i == MatchIndex(call'.app) IN
          /\ \A field \in KeptFields : p_results'[i][field] = p_results[i][field]
          /\ Len(p_results') = Len(p_results)
          /\ \A j \in 1..Len(p_results) : j # i => p_results'[j] = p_results[j]]_vars

\* C27, the part that holds: the results of all other applications are
\* unchanged, and so is the bundle id of the named one.
C27_OtherResultsUnchanged ==
    [][(call'.op = "add_llm_result" /\ call'.ret # None) =>
          LET i == MatchIndex(call'.app) IN
          /\ p_results'[i].bundle_id = p_results[i].bundle_id
          /\ Len(p_results') = Len(p_results)
          /\ \A j \in 1..Len(p_results) : j # i => p_results'[j] = p_results[j]]_vars

(***************************************************************************)
(* Claim C28 on SpecDiscovery: the undiscovered applications a pipeline    *)
(* reports.                                                                *)
(***************************************************************************)
\* DiscoveryPipeline.get_undiscovered_for_llm(max_apps, filter_important=False):
\* "return self._undiscovered[:max_apps]"
get_undiscovered_for_llm(undiscovered, max_apps) ==
    SubSeq(undiscovered, 1, IF Len(undiscovered) < max_apps THEN Len(undiscovered)
                            ELSE max_apps)

\* build_undiscovered_apps_report(undiscovered): the count and the entries
build_undiscovered_apps_report(undiscovered) ==
    [count |-> Len(undiscovered),
     apps |-> [i \in 1..Len(undiscovered) |->
                  [name |-> undiscovered[i].name, bundle_id |-> undiscovered[i].bundle_id]]]

\* DiscoveryPipeline.get_undiscovered_report
get_undiscovered_report == build_undiscovered_apps_report(p_undiscovered)

\* DiscoveryPipeline.get_statistics: the three totals
get_statistics ==
    [total_apps |-> Len(p_results),
     with_settings |-> Cardinality({i \in 1..Len(p_results) : has_settings(p_results[i])}),
     needs_llm_discovery |->
         Cardinality({i \in 1..Len(p_results) : p_results[i].needs_llm_discovery})]

\* the names of the applications of a list
NamesOf(apps) == {apps[i].name : i \in 1..Len(apps)}

\* the names of the applications whose result needs LLM discovery
NeedingLlm == {p_results[i].app_name : i \in {j \in 1..Len(p_results) :
                                                p_results[j].needs_llm_discovery}}

\* C28 as stated: after any sequence of discover_all and add_llm_result
\* calls, the applications returned by
\* get_undiscovered_for_llm(filter_important=False) and counted by
\* get_undiscovered_report are exactly those whose result has
\* needs_llm_discovery true, and the count of the report equals the
\* 'needs_llm_discovery' statistic.
C28_AsStated ==
    call.op \in {"discover_all", "add_llm_result"} =>
        /\ NamesOf(get_undiscovered_for_llm(p_undiscovered, 20)) = NeedingLlm
        /\ NamesOf(get_undiscovered_report.apps) = NeedingLlm
        /\ get_undiscovered_report.count = get_statistics.needs_llm_discovery

\* C28, the part that holds: right after discover_all the two agree.
C28_AgreeAfterDiscoverAll ==
    call.op = "discover_all" =>
        /\ NamesOf(get_undiscovered_for_llm(p_undiscovered, 20)) = NeedingLlm
        /\ get_undiscovered_report.count = get_statistics.needs_llm_discovery

(***************************************************************************)
(* main.py run_inventory: the discovery pipeline is run on the scanned     *)
(* applications, then every path of every tier of every result is backed   *)
(* up under "<category>/<folder_key>/<tier folder>/<basename>".            *)
(***************************************************************************)
\* utils/path_safety.py sanitize_path_component on the names of the model:
\* ".." removed, separators and spaces turned into hyphens, lower-cased,
\* hyphens and dots stripped from both ends, "unnamed" when nothing is left
sanitize_path_component(name) ==
    CASE name = "Apple Notes" -> "apple-notes"
      [] name = ".." -> "unnamed"
      [] OTHER -> LowerName(name)

\* dr.get("app_name", "unknown").lower().replace(" ", "-")
slug(app_name) ==
    CASE app_name = "Apple Notes" -> "apple-notes"
      [] OTHER -> LowerName(app_name)

EDITOR_KEYS_WITH_EXPLICIT_BACKUP == {"vscode", "vscode_insiders", "cursor", "zed", "sublime"}
KNOWN_EDITORS == {"vscode", "vscode-insiders", "code", "cursor", "zed", "sublime", "vim", "emacs"}

folder_key(dr) ==
    sanitize_path_component(IF dr.canonical_key # None THEN dr.canonical_key[1]
                            ELSE slug(dr.app_name))

category(dr) == IF folder_key(dr) \in KNOWN_EDITORS THEN "editors" ELSE "apps"

tier_folder(tier) ==
    CASE tier = "hints" -> "Tier 1 - App Hints Database"
      [] tier = "conventions" -> "Tier 2 - App Conventions"
      [] tier = "llm" -> "Tier 3 - LLM Research"

\* the backup_path calls of one tier of the result at index app: the source,
\* "rel_path" and the patterns passed, in the order of the list
TierJobs(app, dr, tier, paths, exclude_patterns) ==
    [i \in 1..Len(paths) |->
        [app |-> app, path |-> paths[i],
         rel_path |-> <<category(dr), folder_key(dr), tier_folder(tier), Name(paths[i])>>,
         discovery_tier |-> tier, exclude_patterns |-> exclude_patterns]]

\* the three loops over one result: Tier 1 is skipped for the editors that
\* are backed up explicitly, and only Tier 1 passes the exclude patterns
JobsOf(app, dr) ==
    (IF folder_key(dr) \in EDITOR_KEYS_WITH_EXPLICIT_BACKUP THEN <<>>
     ELSE TierJobs(app, dr, "hints", dr.hints_paths, dr.exclude_files))
    \o TierJobs(app, dr, "conventions", dr.conventions_paths, <<>>)
    \o TierJobs(app, dr, "llm", dr.llm_paths, <<>>)

\* "for dr in discovery_results"
Jobs(discovery_results) ==
    Concat([i \in 1..Len(discovery_results) |-> JobsOf(i, discovery_results[i])])

\* a home directory on a case-insensitive volume where the application Tool
\* keeps a settings directory of the same name in two conventional places,
\* and the output directory
InventoryWorld ==
    LET Both(parent, file, size) ==
            (parent \o <<"Tool">> :> Dir) @@ (parent \o <<"tool">> :> Dir)
            @@ (parent \o <<"Tool", file>> :> File(size))
            @@ (parent \o <<"tool", file>> :> File(size))
    IN  Both(home \o <<".config">>, "config.json", 100)
        @@ (home \o <<"Library", "Application Support">> :> Dir)
        @@ Both(home \o <<"Library", "Application Support">>, "config.json", 200)
        @@ (output_dir :> Dir)
        @@ HomeWorld(TRUE, FALSE)

\* a hints database whose entry names a file, the directory it lies in and a
\* pattern for the files to leave out
ExcludingHints ==
    ("docker" :>
        [HintsEntry(Some("com.docker.docker"),
                    <<<<".docker", "config.json">>, <<".docker", "/">>>>,
                    <<>>, None, None)
         EXCEPT !.exclude_files = <<Glob("name", <<"config.json">>, "config.json")>>])

InventoryHintsDbs == HintsDbs \cup {ExcludingHints}

InitInventory ==
    /\ fs = InventoryWorld
    /\ docs \in {[config |-> c, hints_db |-> db] :
                    c \in {"loaded", "missing"}, db \in InventoryHintsDbs}
    /\ call = [op |-> "none"]
    /\ results = <<>>
    /\ p_results = <<>>
    /\ p_undiscovered = <<>>

\* Phase 2: pipeline.discover_all(apps_for_discovery) and get_all_results
RunDiscovery(apps) ==
    LET d == discover_all_apps(fs, docs.config, apps, docs.hints_db) IN
    /\ p_results' = d.discovered
    /\ p_undiscovered' = d.undiscovered
    /\ call' = [op |-> "discover_all", jobs |-> Jobs(p_results'), done |-> 0]
    /\ UNCHANGED <<fs, docs, results>>

\* what one turn of the loops leaves: d is what backup_path answers
Ran(job, exists, d) ==
    /\ fs' = IF exists THEN d.fs ELSE fs
    /\ results' = IF exists /\ d.recorded THEN Append(results, d.ret) ELSE results
    /\ call' = [op |-> "backup_path", jobs |-> call.jobs, done |-> call.done + 1,
                before |-> fs]
    /\ UNCHANGED <<docs, p_results, p_undiscovered>>

\* one turn of the loops of Phase 6.5: "if path.exists(): backup.backup_path(...)"
BackupJob(job) ==
    Ran(job, PathExists(fs, job.path),
        backup_path(fs, docs.config, job.path, job.rel_path, "default",
                    job.discovery_tier, job.exclude_patterns, AllOK))

RunDiscoveryCall == call.op = "none" /\ \E apps \in AppLists : RunDiscovery(apps)

BackupJobCall ==
    /\ call.op \in {"discover_all", "backup_path"}
    /\ call.done < Len(call.jobs)
    /\ BackupJob(call.jobs[call.done + 1])

NextInventory == RunDiscoveryCall \/ BackupJobCall

SpecInventory == InitInventory /\ [][NextInventory]_vars

\* the jobs of a run that have been carried out
DoneJobs == IF call.op = "backup_path" THEN SubSeq(call.jobs, 1, call.done) ELSE <<>>

(***************************************************************************)
(* Claim C29 on SpecInventory.                                             *)
(***************************************************************************)
\* C29 as stated: in the per-tier backup of run_inventory two distinct
\* source paths never map to the same destination: for every application and
\* tier the relative destinations of its paths are pairwise distinct.
C29_AsStated ==
    call.op \in {"discover_all", "backup_path"} =>
        \A i, j \in 1..Len(call.jobs) :
            (/\ i # j
             /\ call.jobs[i].app = call.jobs[j].app
             /\ call.jobs[i].discovery_tier = call.jobs[j].discovery_tier
             /\ call.jobs[i].path # call.jobs[j].path)
            => call.jobs[i].rel_path # call.jobs[j].rel_path

\* C29, the part that holds: the destinations of different tiers, and of
\* applications with different folder keys, are distinct.
C29_TiersAndKeysApart ==
    call.op \in {"discover_all", "backup_path"} =>
        \A i, j \in 1..Len(call.jobs) :
            (\/ call.jobs[i].discovery_tier # call.jobs[j].discovery_tier
             \/ folder_key(p_results[call.jobs[i].app])
                    # folder_key(p_results[call.jobs[j].app]))
            => call.jobs[i].rel_path # call.jobs[j].rel_path

(***************************************************************************)
(* Claim C30 on SpecInventory.                                             *)
(***************************************************************************)
\* the job that the last step carried out
LastJob(c) == c.jobs[c.done]

\* C30 as stated: a file whose name matches one of the app-specific exclude
\* patterns passed to backup_path is never written to the backup tree,
\* whether it is reached as a child during a directory walk or is itself the
\* top-level item being backed up.
C30_AsStated ==
    [][call'.op = "backup_path" =>
          \A p \in Written(fs, fs') :
              fs'[p].kind = "file" =>
                  ~MatchesExcludePattern(Name(p), LastJob(call').exclude_patterns)]_vars

\* C30, the part that holds: when the top-level item is a directory, no file
\* whose name matches an exclude pattern is written.
C30_ChildrenAreExcluded ==
    [][(call'.op = "backup_path" /\ IsDir(fs, LastJob(call').path)) =>
          \A p \in Written(fs, fs') :
              fs'[p].kind = "file" =>
                  ~MatchesExcludePattern(Name(p), LastJob(call').exclude_patterns)]_vars

\* a directory walk with patterns that left a matching child out
C30_ChildWitness ==
    /\ call.op = "backup_path"
    /\ IsDir(call.before, LastJob(call).path)
    /\ \E p \in DOMAIN call.before :
           /\ Parent(p) = LastJob(call).path
           /\ call.before[p].kind = "file"
           /\ MatchesExcludePattern(Name(p), LastJob(call).exclude_patterns)

====
